---- MODULE Spec2Model ----
(***************************************************************************)
(* Chunked upload endpoints of src/api/upload-chunked.js and               *)
(* src/api/upload-chunk.js, and the prediction endpoints of                *)
(* src/api/predict.js and src/unnamed/part_000.                            *)
(*                                                                         *)
(* The handler of upload-chunked.js is a stateless serverless function:    *)
(* every request is an independent invocation and the only state requests  *)
(* share is the upload directory UPLOAD_DIR (chunk files, one metadata     *)
(* file per session, one result file per chunk).  The model therefore has  *)
(* one step per access of the shared directory, and steps of different     *)
(* requests interleave freely; the code between two accesses only touches  *)
(* the request's own locals and is folded into the step that precedes it.  *)
(* (Inside a single Node.js process a handler runs from form.parse to its  *)
(* response without yielding to another request; those runs are the        *)
(* behaviours in which no two requests overlap.)                           *)
(*                                                                         *)
(* Specifications:                                                         *)
(*   Spec           the interleaved handler, sessions named "A" and "B";   *)
(*   PathSpec       the handler one request at a time, with the session    *)
(*                  ids as the client spells them, the ids the handler     *)
(*                  generates, and the file paths path.join builds;        *)
(*   AggSpec        the aggregation step over any stored chunk results;    *)
(*   EndpointsSpec  the interleaved handler next to upload-chunk.js;       *)
(*   FaultSpec      the interleaved handler with file accesses that throw  *)
(*                  (the catch of lines 291-297);                          *)
(*   FairFaultSpec  FaultSpec where a request being handled is not left    *)
(*                  waiting forever: its next step, or the failure of its  *)
(*                  next step, is eventually taken;                        *)
(*   RoutingSpec    the two prediction handlers, one request at a time;    *)
(*   UploadSpec     upload-chunk.js on its own, with more uploads;         *)
(*   ChunkSpec      processChunk over more payloads, applied by two        *)
(*                  requests of the interleaved handler.                   *)
(*                                                                         *)
(* Left out: processingTime (Math.random) and the timestamps of the upload *)
(* handlers, which no decision of the handlers reads; failures of reading  *)
(* and unlinking the uploaded temp file; the catch of upload-chunk.js; of  *)
(* the prediction responses, processing_time, the confidence breakdown,    *)
(* suspicious_frames and the constant fields (fps, resolution, texts).     *)
(*                                                                         *)
(* Units: sizes of chunks are in KiB (all buffers of the model are whole   *)
(* KiB), sizes of files given to the prediction endpoints are in bytes,    *)
(* file_size_mb is in 1/100 MB, confidences are in 1/10000 (the code       *)
(* rounds them to 4 decimals).                                             *)
(***************************************************************************)
EXTENDS Integers, Sequences, FiniteSets, TLC

\* ------------------------------------------------------------------ bounds
MaxRequests == 3      \* requests issued in one behaviour
MaxInFlight == 2      \* requests being handled at the same time
MaxChunks == 2        \* largest totalChunks a request declares
NumBuffers == 2       \* distinct chunk payloads

Reqs == 1..MaxRequests
Sessions == {"A", "B"}
\* chunkIndex values a client sends: the handler parses whatever integer it
\* is sent; MaxChunks is out of range for every totalChunks of the model
IdxInputs == 0..MaxChunks
TotalInputs == 1..MaxChunks
Buffers == 1..NumBuffers
FileSizes == {4096}

\* ------------------------------------------------------- chunk payloads
\* chunkBuffer.length, in KiB: 1 MiB, 3 MiB, 64 KiB, then 1 MiB apart
Length(b) == CASE b = 1 -> 1024
               [] b = 2 -> 3072
               [] b = 3 -> 64
               [] OTHER -> 1024 * b

\* parseInt(md5(chunkBuffer).slice(0, 8), 16): md5 is not computed; each
\* payload of the model has its own digest, given by this table
HashInt(b) == CASE b = 1 -> 3200
                [] b = 2 -> 7800
                [] b = 3 -> 7501
                [] b = 6 -> 123456999
                [] b = 7 -> 900
                [] b = 8 -> 2147483647
                [] b = 9 -> 100
                [] b = 10 -> 99
                [] b = 11 -> 901
                [] b = 12 -> 500500
                [] OTHER -> 1500 * b

Max(a, b) == IF a >= b THEN a ELSE b
Min(a, b) == IF a <= b THEN a ELSE b

\* ------------------------------------------------------------ processChunk
\* the confidence without the clamp of line 76
UnclampedConfidence(hashInt) == (hashInt % 1000) * 10

\* lines 75-76 and 95, in 1/10000
ChunkConfidence(hashInt) == Max(1000, Min(9000, (hashInt % 1000) * 10))

ChunkModels(chunkSize, hashInt) ==
  <<"BG-Model-N">>
    \o (IF chunkSize < 2 * 1024 THEN <<"CM-Model-N">> ELSE <<>>)
    \o (IF hashInt % 3 = 0 THEN <<"TM-Model-N">> ELSE <<>>)

processChunk(chunkBuffer, chunkIndex, sessionId) ==
  LET hashInt == HashInt(chunkBuffer)
      chunkSize == Length(chunkBuffer)
      confidence == ChunkConfidence(hashInt)
  IN [chunkIndex |-> chunkIndex,
      sessionId |-> sessionId,
      prediction |-> IF confidence > 5000 THEN "fake" ELSE "real",
      confidence |-> confidence,
      modelsUsed |-> ChunkModels(chunkSize, hashInt),
      chunkSize |-> chunkSize,
      estimatedFrames |-> chunkSize \div 50,
      hash |-> hashInt]

\* --------------------------------------------------- aggregateChunkResults
RECURSIVE SumSeq(_)
\* array.reduce((sum, x) => sum + x, 0)
SumSeq(seq) == IF seq = <<>> THEN 0 ELSE Head(seq) + SumSeq(Tail(seq))

\* the spread array without the Set: every occurrence is kept
KeepDuplicates(seq) == seq

\* [...new Set(array)]: first occurrences, in order
Dedupe(seq) ==
  LET first == {k \in 1..Len(seq) : \A j \in 1..(k - 1) : seq[j] /= seq[k]}
  IN [n \in 1..Cardinality(first) |->
        seq[CHOOSE k \in first : Cardinality({j \in first : j <= k}) = n]]

RECURSIVE FlatModels(_)
\* chunkResults.flatMap(r => r.modelsUsed)
FlatModels(chunkResults) ==
  IF chunkResults = <<>> THEN <<>>
  ELSE Head(chunkResults).modelsUsed \o FlatModels(Tail(chunkResults))

ChunkBreakdownEntry(chunk) ==
  [chunkIndex |-> chunk.chunkIndex,
   prediction |-> chunk.prediction,
   confidence |-> chunk.confidence,
   size |-> chunk.chunkSize,
   models |-> chunk.modelsUsed,
   frames |-> chunk.estimatedFrames]

\* aggregateChunkResults with the prediction decided by >= 0.5
aggregateChunkResultsAtLeastHalf(chunkResults, totalFileSize) ==
  LET totalChunks == Len(chunkResults)
      fakeChunks == Cardinality({k \in 1..totalChunks : chunkResults[k].prediction = "fake"})
      realChunks == totalChunks - fakeChunks
      num == SumSeq([k \in 1..totalChunks |->
                       chunkResults[k].confidence * chunkResults[k].chunkSize])
      den == SumSeq([k \in 1..totalChunks |-> chunkResults[k].chunkSize])
      isNaN == totalFileSize = 0 \/ den = 0
  IN [prediction |-> IF ~isNaN /\ num >= 5000 * den THEN "fake" ELSE "real",
      confidence_is_nan |-> isNaN,
      confidence |-> IF isNaN THEN 0 ELSE (2 * num + den) \div (2 * den),
      models_used |-> Dedupe(FlatModels(chunkResults)),
      total_chunks |-> totalChunks,
      chunks_fake |-> fakeChunks,
      chunks_real |-> realChunks,
      chunk_breakdown |-> [k \in 1..totalChunks |-> ChunkBreakdownEntry(chunkResults[k])],
      chunk_consensus |-> IF fakeChunks > realChunks THEN "fake_majority" ELSE "real_majority",
      consistency_score |-> <<Max(fakeChunks, realChunks), totalChunks>>,
      frames_analyzed |-> SumSeq([k \in 1..totalChunks |-> chunkResults[k].estimatedFrames]),
      chunks_processed |-> totalChunks,
      file_size |-> totalFileSize]

\* weight = chunkSize / totalFileSize; weightedConfidence / totalWeight is
\* sum(confidence * chunkSize) / sum(chunkSize) for a totalFileSize other
\* than 0, and NaN for totalFileSize = 0 (Infinity / Infinity) or for no
\* weight at all (0 / 0).
aggregateChunkResults(chunkResults, totalFileSize) ==
  LET totalChunks == Len(chunkResults)
      fakeChunks == Cardinality({k \in 1..totalChunks : chunkResults[k].prediction = "fake"})
      realChunks == totalChunks - fakeChunks
      num == SumSeq([k \in 1..totalChunks |->
                       chunkResults[k].confidence * chunkResults[k].chunkSize])
      den == SumSeq([k \in 1..totalChunks |-> chunkResults[k].chunkSize])
      isNaN == totalFileSize = 0 \/ den = 0
  IN [prediction |-> IF ~isNaN /\ num > 5000 * den THEN "fake" ELSE "real",
      confidence_is_nan |-> isNaN,
      confidence |-> IF isNaN THEN 0 ELSE (2 * num + den) \div (2 * den),
      models_used |-> Dedupe(FlatModels(chunkResults)),
      total_chunks |-> totalChunks,
      chunks_fake |-> fakeChunks,
      chunks_real |-> realChunks,
      chunk_breakdown |-> [k \in 1..totalChunks |-> ChunkBreakdownEntry(chunkResults[k])],
      chunk_consensus |-> IF fakeChunks > realChunks THEN "fake_majority" ELSE "real_majority",
      \* consistency_score = Math.max(fakeChunks, realChunks) / totalChunks,
      \* kept as the pair <<numerator, denominator>>
      consistency_score |-> <<Max(fakeChunks, realChunks), totalChunks>>,
      frames_analyzed |-> SumSeq([k \in 1..totalChunks |-> chunkResults[k].estimatedFrames]),
      chunks_processed |-> totalChunks,
      file_size |-> totalFileSize]

\* ------------------------------------------------------------------ state
VARIABLES
  chunkFiles,    \* UPLOAD_DIR/<sessionId>-chunk-<i>: session -> (index -> payload)
  metaFiles,     \* UPLOAD_DIR/<sessionId>-metadata.json: session -> (key -> entry);
                 \* a file that does not exist reads as the empty object
  resultFiles,   \* UPLOAD_DIR/<sessionId>-result-<i>.json: session -> (index -> result)
  pc,            \* where each request is in the handler
  req,           \* the parsed form fields and payload of each request
  metadata,      \* handler local: the object storeChunkMetadata builds and returns
  resp,          \* the response sent for each request
  timer,         \* the setTimeout cleanup each completing request schedules
  hist,          \* history of each request, read by the properties only
  \* the same endpoint with its requests handled one at a time and the files
  \* of UPLOAD_DIR under the paths path.join gives them
  now,           \* Date.now()
  filesByPath,   \* UPLOAD_DIR: path -> content
  served,        \* the requests handled so far: fields, session id, response
  cleanups,      \* the setTimeout cleanups that are scheduled
  \* src/api/upload-chunk.js
  uploadDirs,    \* TEMP_DIR/<uploadId>/: uploadId -> chunk files and metadata.json
  uploadLog,     \* the requests handled so far: fields and response
  \* src/api/predict.js and its deterministic-routing version
  predictLog     \* the requests handled so far: endpoint, file and response

handlerVars == <<chunkFiles, metaFiles, resultFiles, pc, req, metadata, resp, timer, hist>>
pathVars == <<now, filesByPath, served, cleanups>>
uploadVars == <<uploadDirs, uploadLog>>
routingVars == <<predictLog>>
vars == <<handlerVars, pathVars, uploadVars, routingVars>>

EmptyFile == [k \in {} |-> 0]

NoReq == [sessionId |-> "A", chunkIndex |-> 0, totalChunks |-> 1,
          fileSize |-> 0, chunk |-> 0]

\* responses without a result carry the empty object in its place, and
\* responses without an error field the empty string
NoResp == [kind |-> "none", status |-> 0, completed |-> FALSE,
           receivedChunks |-> 0, result |-> EmptyFile, error |-> ""]

\* What the properties need to remember of a request: who was in flight when
\* it arrived, whether it repeats a recorded (index, hash) and which keys the
\* session's metadata had then, whether anyone else changed that key set
\* while it ran, whether processChunk ran, and which result files its
\* aggregation found, and the file access that threw, if one did.
NoHist == [inFlightAtStart |-> {}, reupload |-> FALSE, keysAtStart |-> {},
           disturbed |-> FALSE, analyzed |-> FALSE, loaded |-> {},
           failedAt |-> "none"]

\* UPLOAD_DIR as created at module load (lines 29-31): empty
PathInit ==
  /\ now = 0
  /\ filesByPath = EmptyFile
  /\ served = <<>>
  /\ cleanups = {}

\* TEMP_DIR as created at module load (upload-chunk.js, lines 22-25): empty
UploadInit ==
  /\ uploadDirs = EmptyFile
  /\ uploadLog = <<>>

\* the prediction endpoints keep nothing between requests
RoutingInit == predictLog = <<>>

Init ==
  /\ chunkFiles = [s \in Sessions |-> EmptyFile]
  /\ metaFiles = [s \in Sessions |-> EmptyFile]
  /\ resultFiles = [s \in Sessions |-> EmptyFile]
  /\ pc = [r \in Reqs |-> "idle"]
  /\ req = [r \in Reqs |-> NoReq]
  /\ metadata = [r \in Reqs |-> EmptyFile]
  /\ resp = [r \in Reqs |-> NoResp]
  /\ timer = [r \in Reqs |-> "none"]
  /\ hist = [r \in Reqs |-> NoHist]
  /\ PathInit
  /\ UploadInit
  /\ RoutingInit

InFlight == {r \in Reqs : pc[r] \notin {"idle", "done"}}

\* fs.writeFileSync(path, value) on one of the per-session families of files
WriteFile(files, sessionId, key, value) ==
  [files EXCEPT ![sessionId] =
     [k \in DOMAIN files[sessionId] \cup {key} |->
        IF k = key THEN value ELSE files[sessionId][k]]]

\* fs.unlinkSync of the files of a session whose key is in keys
UnlinkFiles(files, sessionId, keys) ==
  [files EXCEPT ![sessionId] =
     [k \in DOMAIN files[sessionId] \ keys |-> files[sessionId][k]]]

\* ------------------------------------------------------ storeChunkMetadata
\* lines 48-50: the metadata object as read from the session's file
readMetadata(sessionId) == metaFiles[sessionId]

\* putMetadata as a log of uploads: the entry is stored under the next free
\* key instead of under chunkIndex
putMetadataAppending(meta, chunkIndex, chunkData) ==
  LET key == CHOOSE k \in 0..Cardinality(DOMAIN meta) : k \notin DOMAIN meta
  IN [k \in DOMAIN meta \cup {key} |->
        IF k = key
          THEN [size |-> Length(chunkData), hash |-> HashInt(chunkData)]
          ELSE meta[k]]

\* lines 52-56: metadata[chunkIndex] = {size, hash, timestamp}
putMetadata(meta, chunkIndex, chunkData) ==
  [k \in DOMAIN meta \cup {chunkIndex} |->
     IF k = chunkIndex
       THEN [size |-> Length(chunkData), hash |-> HashInt(chunkData)]
       ELSE meta[k]]

\* line 226: Object.keys(metadata).length
receivedChunksOf(meta) == Cardinality(DOMAIN meta)

\* lines 225-229
isLastChunk(chunkIndex, totalChunks) == chunkIndex = totalChunks - 1
allChunksReceived(meta, totalChunks) == receivedChunksOf(meta) = totalChunks

\* lines 233-241: the result files 0..totalChunks-1 that exist, in index order
RECURSIVE loadChunkResults(_, _, _)
loadChunkResults(sessionId, i, totalChunks) ==
  IF i >= totalChunks THEN <<>>
  ELSE (IF i \in DOMAIN resultFiles[sessionId]
          THEN <<resultFiles[sessionId][i]>> ELSE <<>>)
       \o loadChunkResults(sessionId, i + 1, totalChunks)

RECURSIVE InsertByIndex(_, _)
InsertByIndex(sorted, x) ==
  IF sorted = <<>> THEN <<x>>
  ELSE IF x.chunkIndex < Head(sorted).chunkIndex THEN <<x>> \o sorted
  ELSE <<Head(sorted)>> \o InsertByIndex(Tail(sorted), x)

RECURSIVE sortByChunkIndex(_)
\* line 244: chunkResults.sort((a, b) => a.chunkIndex - b.chunkIndex)
sortByChunkIndex(seq) ==
  IF seq = <<>> THEN <<>>
  ELSE InsertByIndex(sortByChunkIndex(SubSeq(seq, 1, Len(seq) - 1)), seq[Len(seq)])

\* --------------------------------------------------------------- history
\* Requests other than `actor` that are in flight on a session whose
\* metadata key set this step changes are marked disturbed.
Disturb(h, newMeta, actor) ==
  [r \in Reqs |->
     IF /\ r /= actor
        /\ r \in InFlight
        /\ DOMAIN newMeta[req[r].sessionId] /= DOMAIN metaFiles[req[r].sessionId]
       THEN [h[r] EXCEPT !.disturbed = TRUE]
       ELSE h[r]]

\* ---------------------------------------------------------------- handler
\* The requests a client can send next.  Session ids are names: the first
\* request uses "A", and "B" is any other id.  A request without a chunk
\* file (chunk = 0) is sent without the other fields either, which the
\* handler defaults (lines 193-196).
Inputs(r) ==
  {i \in [sessionId : Sessions, chunkIndex : IdxInputs, totalChunks : TotalInputs,
          fileSize : FileSizes \cup {0}, chunk : Buffers \cup {0}] :
     /\ r = 1 => i.sessionId = "A"
     /\ i.chunk = 0 => i.chunkIndex = 0 /\ i.totalChunks = 1 /\ i.fileSize = 0
     /\ i.chunk /= 0 => i.fileSize \in FileSizes}

\* lines 190-209: the request is parsed; without a chunk file it is answered
\* 400 and nothing else happens, otherwise the chunk is written to
\* <sessionId>-chunk-<chunkIndex>.  (No request reads a chunk file, so the
\* write is not a step of its own.)
Start(r) ==
  /\ pc[r] = "idle"
  /\ \A q \in Reqs : q < r => pc[q] /= "idle"
  /\ Cardinality(InFlight) < MaxInFlight
  /\ \E i \in Inputs(r) :
       /\ req' = [req EXCEPT ![r] = i]
       /\ hist' = [hist EXCEPT ![r] =
            [NoHist EXCEPT
               !.inFlightAtStart = InFlight,
               !.keysAtStart = DOMAIN metaFiles[i.sessionId],
               !.reupload = /\ i.chunk /= 0
                            /\ i.chunkIndex \in DOMAIN metaFiles[i.sessionId]
                            /\ metaFiles[i.sessionId][i.chunkIndex].hash = HashInt(i.chunk)]]
       /\ IF i.chunk = 0
            THEN /\ pc' = [pc EXCEPT ![r] = "done"]
                 /\ resp' = [resp EXCEPT ![r] =
                      [NoResp EXCEPT !.kind = "no_chunk", !.status = 400,
                                     !.error = "No chunk uploaded"]]
                 /\ chunkFiles' = chunkFiles
            ELSE /\ pc' = [pc EXCEPT ![r] = "meta_read"]
                 /\ resp' = resp
                 /\ chunkFiles' = WriteFile(chunkFiles, i.sessionId, i.chunkIndex, i.chunk)
  /\ UNCHANGED <<metaFiles, resultFiles, metadata, timer>>
  /\ UNCHANGED <<pathVars, uploadVars, routingVars>>

\* storeChunkMetadata, lines 45-50: read the session's metadata file
MetaRead(r) ==
  /\ pc[r] = "meta_read"
  /\ metadata' = [metadata EXCEPT ![r] = readMetadata(req[r].sessionId)]
  /\ pc' = [pc EXCEPT ![r] = "meta_write"]
  /\ UNCHANGED <<chunkFiles, metaFiles, resultFiles, req, resp, timer, hist>>
  /\ UNCHANGED <<pathVars, uploadVars, routingVars>>

\* storeChunkMetadata, lines 52-59: set the entry and write the file back
MetaWrite(r) ==
  /\ pc[r] = "meta_write"
  /\ LET m == putMetadata(metadata[r], req[r].chunkIndex, req[r].chunk)
         newMeta == [metaFiles EXCEPT ![req[r].sessionId] = m]
     IN /\ metadata' = [metadata EXCEPT ![r] = m]
        /\ metaFiles' = newMeta
        /\ hist' = Disturb(hist, newMeta, r)
  /\ pc' = [pc EXCEPT ![r] = "analyze"]
  /\ UNCHANGED <<chunkFiles, resultFiles, req, resp, timer>>
  /\ UNCHANGED <<pathVars, uploadVars, routingVars>>

\* Analyze of a handler that holds its answer back until every chunk of the
\* session has been received
AnalyzeAfterAllChunks(r) ==
  /\ pc[r] = "analyze"
  /\ allChunksReceived(metaFiles[req[r].sessionId], req[r].totalChunks)
  /\ LET chunkResult == processChunk(req[r].chunk, req[r].chunkIndex, req[r].sessionId)
     IN /\ resultFiles' = WriteFile(resultFiles, req[r].sessionId, req[r].chunkIndex, chunkResult)
        /\ hist' = [hist EXCEPT ![r].analyzed = TRUE]
        /\ IF /\ isLastChunk(req[r].chunkIndex, req[r].totalChunks)
              /\ allChunksReceived(metadata[r], req[r].totalChunks)
             THEN /\ pc' = [pc EXCEPT ![r] = "aggregate"]
                  /\ resp' = resp
             ELSE /\ pc' = [pc EXCEPT ![r] = "done"]
                  /\ resp' = [resp EXCEPT ![r] =
                       [NoResp EXCEPT !.kind = "partial", !.status = 200,
                                      !.receivedChunks = receivedChunksOf(metadata[r])]]
  /\ UNCHANGED <<chunkFiles, metaFiles, req, metadata, timer>>
  /\ UNCHANGED <<pathVars, uploadVars, routingVars>>

\* lines 215-229 and 274-289: processChunk, the result file, the completion
\* test on the metadata object storeChunkMetadata returned, and the
\* partial-progress response
Analyze(r) ==
  /\ pc[r] = "analyze"
  /\ LET chunkResult == processChunk(req[r].chunk, req[r].chunkIndex, req[r].sessionId)
     IN /\ resultFiles' = WriteFile(resultFiles, req[r].sessionId, req[r].chunkIndex, chunkResult)
        /\ hist' = [hist EXCEPT ![r].analyzed = TRUE]
        /\ IF /\ isLastChunk(req[r].chunkIndex, req[r].totalChunks)
              /\ allChunksReceived(metadata[r], req[r].totalChunks)
             THEN /\ pc' = [pc EXCEPT ![r] = "aggregate"]
                  /\ resp' = resp
             ELSE /\ pc' = [pc EXCEPT ![r] = "done"]
                  /\ resp' = [resp EXCEPT ![r] =
                       [NoResp EXCEPT !.kind = "partial", !.status = 200,
                                      !.receivedChunks = receivedChunksOf(metadata[r])]]
  /\ UNCHANGED <<chunkFiles, metaFiles, req, metadata, timer>>
  /\ UNCHANGED <<pathVars, uploadVars, routingVars>>

\* lines 233-273: load the result files, sort, aggregate, schedule the
\* cleanup and answer with the final result.  The existsSync/readFileSync
\* pairs of the loop are taken at one instant of the directory.
Aggregate(r) ==
  /\ pc[r] = "aggregate"
  /\ LET chunkResults == sortByChunkIndex(loadChunkResults(req[r].sessionId, 0, req[r].totalChunks))
         finalResult == aggregateChunkResults(chunkResults, req[r].fileSize)
     IN /\ resp' = [resp EXCEPT ![r] =
             [NoResp EXCEPT !.kind = "final", !.status = 200, !.completed = TRUE,
                            !.result = finalResult]]
        /\ hist' = [hist EXCEPT ![r].loaded =
             {chunkResults[k].chunkIndex : k \in 1..Len(chunkResults)}]
  /\ timer' = [timer EXCEPT ![r] = "pending"]
  /\ pc' = [pc EXCEPT ![r] = "done"]
  /\ UNCHANGED <<chunkFiles, metaFiles, resultFiles, req, metadata>>
  /\ UNCHANGED <<pathVars, uploadVars, routingVars>>

\* lines 250-264: the cleanup callback of the request that aggregated.  It
\* is due 5 minutes after the response; the model lets it run at any later
\* moment, or never (the instance that holds the timer may be gone).
Cleanup(r) ==
  /\ timer[r] = "pending"
  /\ LET sessionId == req[r].sessionId
         range == 0..(req[r].totalChunks - 1)
         newMeta == [metaFiles EXCEPT ![sessionId] = EmptyFile]
     IN /\ chunkFiles' = UnlinkFiles(chunkFiles, sessionId, range)
        /\ resultFiles' = UnlinkFiles(resultFiles, sessionId, range)
        /\ metaFiles' = newMeta
        /\ hist' = Disturb(hist, newMeta, 0)
  /\ timer' = [timer EXCEPT ![r] = "fired"]
  /\ UNCHANGED <<pc, req, metadata, resp>>
  /\ UNCHANGED <<pathVars, uploadVars, routingVars>>

Next ==
  \E r \in Reqs :
    \/ Start(r)
    \/ MetaRead(r)
    \/ MetaWrite(r)
    \/ Analyze(r)
    \/ Aggregate(r)
    \/ Cleanup(r)

Spec == Init /\ [][Next]_vars

\* ------------------------------------------------------------ properties
Started(r) == pc[r] /= "idle"
Done(r) == pc[r] = "done"
Uploads == {r \in Reqs : Started(r) /\ req[r].chunk /= 0}
ReqsOf(s) == {r \in Reqs : Started(r) /\ req[r].sessionId = s}
UploadsOf(s) == Uploads \cap ReqsOf(s)
Range(n) == 0..(n - 1)

\* r arrived while q was being handled
Overlap(q, r) == q \in hist[r].inFlightAtStart \/ r \in hist[q].inFlightAtStart

\* the requests that called aggregateChunkResults: each schedules its cleanup
Aggregated(r) == timer[r] /= "none"
AggCount(s) == Cardinality({r \in ReqsOf(s) : Aggregated(r)})

\* the cleanup of no request of session s has run
NotPurged(s) == \A r \in ReqsOf(s) : timer[r] /= "fired"

\* the totalChunks the first upload of session s declared
FirstUpload(s) == CHOOSE r \in UploadsOf(s) : \A q \in UploadsOf(s) : r <= q
SessionTotal(s) == req[FirstUpload(s)].totalChunks

\* every upload of session s declared the same totalChunks and an index
\* within it
WellFormed(s) ==
  \A r \in UploadsOf(s) :
    req[r].totalChunks = SessionTotal(s) /\ req[r].chunkIndex \in Range(req[r].totalChunks)

\* every upload of session s declared the same totalChunks
SameTotal(s) == \A r \in UploadsOf(s) : req[r].totalChunks = SessionTotal(s)

\* no two requests of session s were handled at the same time
Sequential(s) == \A q, r \in ReqsOf(s) : ~Overlap(q, r)

\* Session s saw exactly n uploads, one per index 0..n-1, each declaring
\* totalChunks = n, one after the other, and all are answered.
OneByOne(s, n) ==
  /\ ReqsOf(s) = UploadsOf(s)
  /\ Cardinality(UploadsOf(s)) = n
  /\ {req[r].chunkIndex : r \in UploadsOf(s)} = Range(n)
  /\ \A r \in UploadsOf(s) : req[r].totalChunks = n /\ Done(r)
  /\ \A q, r \in UploadsOf(s) : ~Overlap(q, r)

\* C1: when the n indices 0..n-1 of a session are each uploaded once with
\* totalChunks = n, in any order, exactly one of the n requests is answered
\* completed = true and the others completed = false.
C1_ExactlyOneCompletes ==
  \A s \in Sessions, n \in TotalInputs :
    OneByOne(s, n) =>
      Cardinality({r \in UploadsOf(s) : resp[r].completed}) = 1

\* q and r are the only two requests still to arrive for session s: they
\* carry the two indices its metadata lacks, declare the same totalChunks,
\* and run concurrently; every other request of s was answered before.
LastTwo(s, q, r) ==
  /\ q < r /\ {q, r} \subseteq UploadsOf(s)
  /\ q \in hist[r].inFlightAtStart
  /\ req[q].totalChunks = req[r].totalChunks
  /\ req[q].chunkIndex /= req[r].chunkIndex
  /\ {req[q].chunkIndex, req[r].chunkIndex} \subseteq Range(req[q].totalChunks)
  /\ hist[q].keysAtStart = Range(req[q].totalChunks) \ {req[q].chunkIndex, req[r].chunkIndex}
  /\ \A o \in ReqsOf(s) \ {q, r} : o < q /\ o \notin hist[q].inFlightAtStart /\ ~Aggregated(o)

\* C2: two concurrent requests that carry the last two missing chunks of a
\* session produce exactly one aggregate: one is answered completed = true
\* and the other partial progress.
C2_ConcurrentLastChunksAggregateOnce ==
  \A s \in Sessions : \A q, r \in Reqs :
    (LastTwo(s, q, r) /\ Done(q) /\ Done(r)) =>
      /\ AggCount(s) = 1
      /\ Cardinality({x \in {q, r} : resp[x].completed}) = 1
      /\ \E x \in {q, r} : resp[x].kind = "partial"

\* C3: after two concurrent requests for distinct indices of one session
\* both succeeded, the session's metadata holds both indices.
C3_NoLostUpdate ==
  \A q, r \in Uploads :
    (/\ q /= r /\ Overlap(q, r)
     /\ req[q].sessionId = req[r].sessionId
     /\ req[q].chunkIndex /= req[r].chunkIndex
     /\ UploadsOf(req[q].sessionId) = {q, r}
     /\ WellFormed(req[q].sessionId)
     /\ Done(q) /\ resp[q].status = 200
     /\ Done(r) /\ resp[r].status = 200
     /\ NotPurged(req[q].sessionId))
    => {req[q].chunkIndex, req[r].chunkIndex} \subseteq DOMAIN metaFiles[req[q].sessionId]

\* the chunkIndex values of a chunk breakdown, in order
BreakdownIndices(result) ==
  [k \in 1..Len(result.chunk_breakdown) |-> result.chunk_breakdown[k].chunkIndex]

\* C4: every aggregate returned for a session with totalChunks = n (all its
\* uploads declare n and an index within it) has a chunk breakdown of
\* exactly n entries, with chunkIndex 0, 1, ..., n-1 in this order.
C4_BreakdownComplete ==
  \A r \in Reqs :
    (resp[r].completed /\ WellFormed(req[r].sessionId)) =>
      BreakdownIndices(resp[r].result) = [k \in 1..req[r].totalChunks |-> k - 1]

\* C5: a session is aggregated at most once.
C5_AggregateAtMostOnce == \A s \in Sessions : AggCount(s) <= 1

\* r has run storeChunkMetadata
Recorded(r) == pc[r] \in {"analyze", "aggregate"} \/ (Done(r) /\ hist[r].analyzed)

\* C6: a request that uploads again an index the session's metadata already
\* holds, with the same bytes, leaves the received count as it was when the
\* request arrived (as long as nobody else changed the session's set of
\* received indices meanwhile): the count it computes, and reports in a
\* partial-progress response, is the count before it.
C6_ReuploadKeepsCount ==
  \A r \in Reqs :
    (Recorded(r) /\ hist[r].reupload /\ ~hist[r].disturbed) =>
      /\ receivedChunksOf(metadata[r]) = Cardinality(hist[r].keysAtStart)
      /\ resp[r].kind = "partial" =>
           resp[r].receivedChunks = Cardinality(hist[r].keysAtStart)

\* C6 witness: with two indices recorded, an index whose first upload was
\* answered is uploaded again with the same bytes, undisturbed, and the
\* answer reports two received chunks.
C6_Witness ==
  \E q, r \in Reqs :
    /\ q < r /\ Done(q) /\ resp[q].status = 200 /\ q \notin hist[r].inFlightAtStart
    /\ req[q].sessionId = req[r].sessionId
    /\ req[q].chunkIndex = req[r].chunkIndex
    /\ req[q].chunk = req[r].chunk
    /\ Done(r) /\ hist[r].reupload /\ ~hist[r].disturbed
    /\ Cardinality(hist[r].keysAtStart) = 2
    /\ resp[r].kind = "partial" /\ resp[r].receivedChunks = 2

\* C7: a request that uploads again, with the same bytes, an index whose
\* first upload was analysed and answered before it arrived does not run
\* processChunk again.
C7_AnalyzeOncePerChunk ==
  \A q, r \in Reqs :
    (/\ q < r /\ Started(r) /\ q \notin hist[r].inFlightAtStart
     /\ hist[q].analyzed /\ resp[q].status = 200
     /\ hist[r].reupload
     /\ req[q].sessionId = req[r].sessionId
     /\ req[q].chunkIndex = req[r].chunkIndex
     /\ req[q].totalChunks = req[r].totalChunks
     /\ req[q].chunk = req[r].chunk)
    => ~hist[r].analyzed

\* C8: the indices recorded in a session's metadata lie in 0..totalChunks-1.
C8_ReceivedWithinRange ==
  \A s \in Sessions :
    UploadsOf(s) /= {} => DOMAIN metaFiles[s] \subseteq Range(SessionTotal(s))

\* C9: aggregation starts only when every index 0..totalChunks-1 is in the
\* session's metadata and has a stored result (stated for the sessions
\* whose requests declare one totalChunks and are handled one at a time).
C9_AggregateOnlyWhenAllStored ==
  \A r \in Reqs :
    (/\ pc[r] = "aggregate"
     /\ SameTotal(req[r].sessionId)
     /\ Sequential(req[r].sessionId)) =>
      \A i \in Range(req[r].totalChunks) :
        /\ i \in DOMAIN metaFiles[req[r].sessionId]
        /\ i \in DOMAIN resultFiles[req[r].sessionId]

\* C10: an aggregation that finds the result of some index 0..totalChunks-1
\* missing is answered with an error, never with completed = true (stated
\* for the sessions whose requests declare one totalChunks and are handled
\* one at a time).
C10_MissingResultFails ==
  \A r \in Reqs :
    (/\ Done(r) /\ Aggregated(r)
     /\ hist[r].loaded /= Range(req[r].totalChunks)
     /\ SameTotal(req[r].sessionId)
     /\ Sequential(req[r].sessionId)) =>
      /\ resp[r].status = 500
      /\ ~resp[r].completed

\* ================================================== session ids and paths
\* The same handler, with the names it gives its files.  A session id is the
\* string the client sent, split at "/"; a path is the sequence of its
\* segments.  A request is handled from form.parse to its response without
\* another one in between, as in a single Node.js process.
MaxServed == 2        \* requests handled in one behaviour
MaxNow == 1           \* milliseconds the clock advances

\* line 26
UPLOAD_DIR == <<"tmp", "chunked-uploads">>

\* sessionId fields a client sends: "A", "B", "./A", "B/../A"
SessionIdInputs == {<<"A">>, <<"B">>, <<".", "A">>, <<"B", "..", "A">>}
\* <<>> is a request without a sessionId field
Omitted == <<>>
Filenames == {"video.mp4"}

RECURSIVE normalize(_, _)
\* path.normalize, which path.join applies to the joined segments: "." and
\* empty segments are dropped, ".." drops the segment before it
normalize(done, rest) ==
  IF rest = <<>> THEN done
  ELSE IF Head(rest) \in {".", ""} THEN normalize(done, Tail(rest))
  ELSE IF Head(rest) = ".."
    THEN normalize(IF done = <<>> THEN done ELSE SubSeq(done, 1, Len(done) - 1),
                   Tail(rest))
  ELSE normalize(Append(done, Head(rest)), Tail(rest))

\* path.join(dir, name)
pathJoin(dir, name) == normalize(<<>>, dir \o name)

\* the template string `${sessionId}${suffix}`, split at "/"
WithSuffix(sessionId, suffix) ==
  SubSeq(sessionId, 1, Len(sessionId) - 1) \o <<sessionId[Len(sessionId)] \o suffix>>

\* line 208
chunkPath(sessionId, chunkIndex) ==
  pathJoin(UPLOAD_DIR, WithSuffix(sessionId, "-chunk-" \o ToString(chunkIndex)))
\* lines 45 and 259
metadataPath(sessionId) ==
  pathJoin(UPLOAD_DIR, WithSuffix(sessionId, "-metadata.json"))
\* lines 218, 236 and 255
resultPath(sessionId, chunkIndex) ==
  pathJoin(UPLOAD_DIR, WithSuffix(sessionId, "-result-" \o ToString(chunkIndex) \o ".json"))

\* lines 36-39: the md5 of the template string; md5 is not computed, each
\* string has its own digest
generateSessionId(filename, fileSize, totalChunks) ==
  <<"md5(" \o filename \o "-" \o ToString(fileSize) \o "-" \o ToString(totalChunks)
      \o "-" \o ToString(now) \o ")">>

\* fs.writeFileSync(path, value)
writeFileSync(files, path, value) ==
  [p \in DOMAIN files \cup {path} |-> IF p = path THEN value ELSE files[p]]

\* fs.unlinkSync of the paths that exist
unlinkSync(files, paths) == [p \in DOMAIN files \ paths |-> files[p]]

\* lines 48-50 on a path
readMetadataAt(files, path) == IF path \in DOMAIN files THEN files[path] ELSE EmptyFile

RECURSIVE loadChunkResultsAt(_, _, _, _)
\* lines 233-241 on paths
loadChunkResultsAt(files, sessionId, i, totalChunks) ==
  IF i >= totalChunks THEN <<>>
  ELSE (IF resultPath(sessionId, i) \in DOMAIN files
          THEN <<files[resultPath(sessionId, i)]>> ELSE <<>>)
       \o loadChunkResultsAt(files, sessionId, i + 1, totalChunks)

\* the form fields of a request; a request without a chunk file (chunk = 0)
\* is sent without the other fields either
PathInputs ==
  {f \in [sessionId : SessionIdInputs \cup {Omitted}, chunkIndex : IdxInputs,
          totalChunks : TotalInputs, filename : Filenames,
          fileSize : FileSizes \cup {0}, chunk : Buffers \cup {0}] :
     /\ f.chunk = 0 => /\ f.sessionId = Omitted /\ f.chunkIndex = 0
                       /\ f.totalChunks = 1 /\ f.fileSize = 0
     /\ f.chunk /= 0 => f.fileSize \in FileSizes}

\* lines 190-289: one request, from the parsed form to the response
Serve ==
  /\ Len(served) < MaxServed
  /\ \E f \in PathInputs :
       LET sessionId == IF f.sessionId /= Omitted THEN f.sessionId
                        ELSE generateSessionId(f.filename, f.fileSize, f.totalChunks)
           withChunk == writeFileSync(filesByPath, chunkPath(sessionId, f.chunkIndex), f.chunk)
           meta == putMetadata(readMetadataAt(withChunk, metadataPath(sessionId)),
                               f.chunkIndex, f.chunk)
           withMeta == writeFileSync(withChunk, metadataPath(sessionId), meta)
           chunkResult == processChunk(f.chunk, f.chunkIndex, sessionId)
           withResult == writeFileSync(withMeta, resultPath(sessionId, f.chunkIndex), chunkResult)
           completed == /\ isLastChunk(f.chunkIndex, f.totalChunks)
                        /\ allChunksReceived(meta, f.totalChunks)
           chunkResults == sortByChunkIndex(
                             loadChunkResultsAt(withResult, sessionId, 0, f.totalChunks))
       IN IF f.chunk = 0
            THEN /\ served' = Append(served,
                       [fields |-> f, sessionId |-> sessionId, status |-> 400,
                        completed |-> FALSE, receivedChunks |-> 0, result |-> EmptyFile])
                 /\ UNCHANGED <<filesByPath, cleanups>>
            ELSE /\ filesByPath' = withResult
                 /\ served' = Append(served,
                       [fields |-> f, sessionId |-> sessionId, status |-> 200,
                        completed |-> completed,
                        receivedChunks |-> receivedChunksOf(meta),
                        result |-> IF completed
                                     THEN aggregateChunkResults(chunkResults, f.fileSize)
                                     ELSE EmptyFile])
                 /\ cleanups' = IF completed
                                  THEN cleanups \cup {[request |-> Len(served) + 1,
                                                       sessionId |-> sessionId,
                                                       totalChunks |-> f.totalChunks]}
                                  ELSE cleanups
  /\ UNCHANGED <<now, handlerVars, uploadVars, routingVars>>

\* a millisecond passes
Tick ==
  /\ now < MaxNow
  /\ now' = now + 1
  /\ UNCHANGED <<filesByPath, served, cleanups, handlerVars, uploadVars, routingVars>>

\* lines 250-264: a scheduled cleanup runs
CleanupPaths ==
  /\ \E c \in cleanups :
       /\ filesByPath' = unlinkSync(filesByPath,
            {chunkPath(c.sessionId, i) : i \in 0..(c.totalChunks - 1)}
              \cup {resultPath(c.sessionId, i) : i \in 0..(c.totalChunks - 1)}
              \cup {metadataPath(c.sessionId)})
       /\ cleanups' = cleanups \ {c}
  /\ UNCHANGED <<now, served, handlerVars, uploadVars, routingVars>>

PathNext == Serve \/ Tick \/ CleanupPaths

PathSpec == Init /\ [][PathNext]_vars

\* the received set and the stored chunk results of a session id
ReceivedSet(sessionId) == DOMAIN readMetadataAt(filesByPath, metadataPath(sessionId))
StoredResults(sessionId) ==
  [i \in {k \in IdxInputs : resultPath(sessionId, k) \in DOMAIN filesByPath} |->
     filesByPath[resultPath(sessionId, i)]]

\* C11: a chunk request under session id a leaves the received set and the
\* stored chunk results of every other session id b unchanged.
C11_SessionIsolation ==
  [][\A a, b \in SessionIdInputs :
       (/\ a /= b
        /\ Len(served') = Len(served) + 1
        /\ served'[Len(served')].sessionId = a)
       => /\ ReceivedSet(b)' = ReceivedSet(b)
          /\ StoredResults(b)' = StoredResults(b)]_vars

\* ================================================ aggregateChunkResults
\* The aggregation step on its own: the directory holds the n chunks of
\* session "A", uploaded in order with any payloads, and the request that
\* carried the last one has stored its result and is about to aggregate.
MaxAggChunks == 3     \* chunks of the session
NumAggBuffers == 5    \* distinct chunk payloads

AggBuffers == 1..NumAggBuffers
\* the fileSize field the client declares; 0 is what an absent field parses to
AggFileSizes == {0, 1000, 4096}

AggInit ==
  \E n \in 1..MaxAggChunks, fileSize \in AggFileSizes :
    \E payload \in [0..(n - 1) -> AggBuffers] :
      LET meta == [i \in 0..(n - 1) |->
                     [size |-> Length(payload[i]), hash |-> HashInt(payload[i])]]
      IN /\ chunkFiles = [s \in Sessions |-> IF s = "A" THEN payload ELSE EmptyFile]
         /\ metaFiles = [s \in Sessions |-> IF s = "A" THEN meta ELSE EmptyFile]
         /\ resultFiles = [s \in Sessions |->
              IF s = "A" THEN [i \in 0..(n - 1) |-> processChunk(payload[i], i, "A")]
              ELSE EmptyFile]
         /\ pc = [r \in Reqs |-> IF r = 1 THEN "aggregate" ELSE "idle"]
         /\ req = [r \in Reqs |->
              IF r = 1 THEN [sessionId |-> "A", chunkIndex |-> n - 1, totalChunks |-> n,
                             fileSize |-> fileSize, chunk |-> payload[n - 1]]
              ELSE NoReq]
         /\ metadata = [r \in Reqs |-> IF r = 1 THEN meta ELSE EmptyFile]
         /\ resp = [r \in Reqs |-> NoResp]
         /\ timer = [r \in Reqs |-> "none"]
         /\ hist = [r \in Reqs |->
              IF r = 1 THEN [NoHist EXCEPT !.keysAtStart = 0..(n - 2), !.analyzed = TRUE]
              ELSE NoHist]
         /\ PathInit
         /\ UploadInit
         /\ RoutingInit

AggNext == \E r \in Reqs : Aggregate(r) \/ Cleanup(r)

AggSpec == AggInit /\ [][AggNext]_vars

\* sum(confidence_i * size_i) and sum(size_i) over a chunk breakdown
WeightedSum(breakdown) ==
  SumSeq([k \in 1..Len(breakdown) |-> breakdown[k].confidence * breakdown[k].size])
TotalSize(breakdown) == SumSeq([k \in 1..Len(breakdown) |-> breakdown[k].size])

\* p / q rounded to the nearest integer, halves up (Math.round), for q > 0
RoundDiv(p, q) == (2 * p + q) \div (2 * q)

\* C12: the confidence of an aggregate is the size-weighted mean of the
\* chunk confidences, sum(confidence_i * size_i) / sum(size_i), rounded to 4
\* decimals; for sizes 1 MiB and 3 MiB with confidences 0.2 and 0.8 it is
\* 0.65 and the prediction is fake.
C12_WeightedMeanConfidence ==
  \A r \in Reqs :
    resp[r].completed =>
      LET result == resp[r].result
          breakdown == result.chunk_breakdown
      IN /\ ~result.confidence_is_nan
         /\ result.confidence = RoundDiv(WeightedSum(breakdown), TotalSize(breakdown))
         /\ ([k \in 1..Len(breakdown) |-> <<breakdown[k].size, breakdown[k].confidence>>]
               = <<(<<1024, 2000>>), (<<3072, 8000>>)>>)
            => result.confidence = 6500 /\ result.prediction = "fake"

\* C13: the prediction of an aggregate is fake exactly when its unrounded
\* confidence, sum(confidence_i * size_i) / sum(size_i), is a number strictly
\* greater than 0.5; it is real otherwise, at exactly 0.5 too.
C13_FakeIffAboveHalf ==
  \A r \in Reqs :
    resp[r].completed =>
      LET result == resp[r].result
          breakdown == result.chunk_breakdown
      IN result.prediction = "fake"
           <=> /\ ~result.confidence_is_nan
               /\ WeightedSum(breakdown) > 5000 * TotalSize(breakdown)

\* C13 witness: an aggregate of two chunks whose weighted mean is exactly
\* 0.5 is answered with prediction real.
C13_Witness ==
  \E r \in Reqs :
    /\ resp[r].completed
    /\ ~resp[r].result.confidence_is_nan
    /\ Len(resp[r].result.chunk_breakdown) = 2
    /\ WeightedSum(resp[r].result.chunk_breakdown)
         = 5000 * TotalSize(resp[r].result.chunk_breakdown)
    /\ resp[r].result.prediction = "real"

\* the elements of a sequence
Elements(seq) == {seq[k] : k \in 1..Len(seq)}

\* C25: the models_used of an aggregate is the set union of the modelsUsed of
\* the chunk results it was computed from (the stored results of the
\* session's indices): every model some chunk used, nothing else, and none
\* twice.
C25_ModelsUsedIsUnion ==
  [][\A r \in Reqs :
       (~resp[r].completed /\ resp'[r].completed) =>
         LET used == resp'[r].result.models_used
             stored == {resultFiles[req[r].sessionId][i] :
                          i \in Range(req[r].totalChunks)
                                  \cap DOMAIN resultFiles[req[r].sessionId]}
         IN /\ Elements(used) = UNION {Elements(chunk.modelsUsed) : chunk \in stored}
            /\ \A j, k \in 1..Len(used) : j /= k => used[j] /= used[k]]_vars

\* C25 witness: an aggregate of two chunks that used two models each, one of
\* them in common, lists three models.
C25_Witness ==
  \E r \in Reqs :
    /\ resp[r].completed
    /\ Len(resp[r].result.chunk_breakdown) = 2
    /\ \A k \in 1..2 : Len(resp[r].result.chunk_breakdown[k].models) = 2
    /\ Len(resp[r].result.models_used) = 3

\* ===================================== validation, purge and expiry (Spec)
\* C14: a chunk request whose chunkIndex is not in 0..totalChunks-1 is
\* rejected as a client error before any storage write: its answer is 4xx,
\* and it stores no chunk file (checked when it is the only upload of its
\* session), no metadata entry and no result.
C14_IndexOutOfRangeRejected ==
  \A r \in Uploads :
    req[r].chunkIndex \notin Range(req[r].totalChunks) =>
      /\ Done(r) => resp[r].status \in 400..499
      /\ UploadsOf(req[r].sessionId) = {r} => chunkFiles[req[r].sessionId] = EmptyFile
      /\ ~Recorded(r)
      /\ ~hist[r].analyzed

\* r arrived when its session existed (its metadata file held a chunk of a
\* request already answered), was not purged, and declares a totalChunks or
\* a fileSize other than the ones the session's first upload declared
Conflicts(r) ==
  LET s == req[r].sessionId
  IN /\ r \in Uploads
     /\ FirstUpload(s) < r
     /\ FirstUpload(s) \notin hist[r].inFlightAtStart
     /\ hist[r].keysAtStart /= {}
     /\ NotPurged(s)
     /\ \/ req[r].totalChunks /= req[FirstUpload(s)].totalChunks
        \/ req[r].fileSize /= req[FirstUpload(s)].fileSize

\* C16: a chunk request for an existing session that declares another
\* totalChunks or fileSize than the session was created with is rejected
\* with an error, and it stores neither a metadata entry nor a result.
C16_SessionConflictRejected ==
  \A r \in Reqs :
    Conflicts(r) =>
      /\ Done(r) => resp[r].status \in 400..499
      /\ ~Recorded(r)
      /\ ~hist[r].analyzed

\* r arrived for a session that had been purged: an upload of the session
\* had been recorded and answered, and the session's metadata file, which
\* only the cleanup deletes, was gone when r arrived
ArrivedAfterPurge(r) ==
  /\ r \in Uploads
  /\ hist[r].keysAtStart = {}
  /\ \E o \in UploadsOf(req[r].sessionId) :
       o < r /\ o \notin hist[r].inFlightAtStart /\ hist[o].analyzed

\* the indices uploaded to r's session by r, by the requests that arrived
\* after r or were still being handled when r arrived, and by the earlier
\* ones that arrived after a purge themselves
NewIndices(r) ==
  {req[q].chunkIndex : q \in {q \in UploadsOf(req[r].sessionId) :
                                 \/ q >= r
                                 \/ q \in hist[r].inFlightAtStart
                                 \/ ArrivedAfterPurge(q)}}

\* C18: a chunk that arrives for a purged session starts a fresh one: the
\* received set its request computes, and the results its aggregation
\* loads, hold only indices uploaded since the purge.
C18_PurgedSessionStartsFresh ==
  \A r \in Reqs :
    (ArrivedAfterPurge(r) /\ Recorded(r)) =>
      /\ DOMAIN metadata[r] \subseteq NewIndices(r)
      /\ hist[r].loaded \subseteq NewIndices(r)

\* C19: the cleanup of a session runs only when no request of that session
\* is being handled.
C19_CleanupOnlyWhenQuiet ==
  [][\A r \in Reqs :
       (timer[r] = "pending" /\ timer'[r] = "fired") =>
         \A q \in InFlight : req[q].sessionId /= req[r].sessionId]_vars

\* nothing is left to happen: every request of the behaviour was answered
\* and no cleanup is scheduled
Quiet == \A r \in Reqs : Done(r) /\ timer[r] /= "pending"

\* C20: a session that stays incomplete and sees no more chunks ends up
\* expired, with its storage reclaimed: once every request was answered and
\* no cleanup is scheduled, a session that was never aggregated has no
\* metadata, chunk or result file left.
C20_AbandonedSessionReclaimed ==
  \A s \in Sessions :
    (Quiet /\ UploadsOf(s) /= {} /\ AggCount(s) = 0) =>
      /\ metaFiles[s] = EmptyFile
      /\ chunkFiles[s] = EmptyFile
      /\ resultFiles[s] = EmptyFile

\* C21: after a session has completed and its retention window has elapsed
\* (the cleanup of the request that aggregated has run), with no request of
\* the session arriving after the completing one, none overlapping another
\* and all declaring the same totalChunks, no chunk file, result file or
\* metadata file of the session is left.
C21_CompletedSessionDeleted ==
  \A r \in Reqs :
    (/\ timer[r] = "fired"
     /\ \A q \in ReqsOf(req[r].sessionId) : Done(q) /\ q <= r
     /\ Sequential(req[r].sessionId)
     /\ SameTotal(req[r].sessionId))
    => /\ chunkFiles[req[r].sessionId] = EmptyFile
       /\ resultFiles[req[r].sessionId] = EmptyFile
       /\ metaFiles[req[r].sessionId] = EmptyFile

\* ============================================ assigned session ids (PathSpec)
\* C17: two chunk requests that omit sessionId and carry the same filename,
\* fileSize and totalChunks are assigned the same session id.
C17_OmittedIdDeterministic ==
  \A i, j \in 1..Len(served) :
    (/\ served[i].status = 200 /\ served[j].status = 200
     /\ served[i].fields.sessionId = Omitted
     /\ served[j].fields.sessionId = Omitted
     /\ served[i].fields.filename = served[j].fields.filename
     /\ served[i].fields.fileSize = served[j].fields.fileSize
     /\ served[i].fields.totalChunks = served[j].fields.totalChunks)
    => served[i].sessionId = served[j].sessionId

\* ===================================================== upload-chunk.js
\* The endpoint of src/api/upload-chunk.js.  Its handler has no await after
\* form.parse: a request is one step.
MaxUploads == 2       \* requests to upload-chunk in one behaviour

\* line 54: fields.uploadId?.[0]; an absent or empty field is falsy
UploadIds == {"U"}
NoUploadId == ""

RECURSIVE padStart(_, _)
\* String.prototype.padStart(n, '0')
padStart(s, n) == IF Len(s) >= n THEN s ELSE padStart("0" \o s, n)

\* line 68: `chunk_${String(chunkIndex).padStart(4, '0')}`
chunkFileName(chunkIndex) == "chunk_" \o padStart(ToString(chunkIndex), 4)

\* the form of a request: chunk = 0 is a request without a chunk file
UploadInputs ==
  [chunk : {0, 1}, chunkIndex : 0..1, totalChunks : {2},
   uploadId : UploadIds \cup {NoUploadId},
   fileName : Filenames, fileSize : FileSizes]

\* upload-chunk with the upload directory created before the fields are
\* checked
UploadChunkMkdirFirst(f) ==
  /\ IF f.chunk = 0 \/ f.uploadId = NoUploadId
       THEN /\ uploadLog' = Append(uploadLog, [fields |-> f, status |-> 400])
            /\ uploadDirs' = IF f.uploadId = NoUploadId \/ f.uploadId \in DOMAIN uploadDirs
                               THEN uploadDirs
                               ELSE writeFileSync(uploadDirs, f.uploadId, EmptyFile)
       ELSE LET uploadDir == IF f.uploadId \in DOMAIN uploadDirs
                               THEN uploadDirs[f.uploadId] ELSE EmptyFile
                withChunk == writeFileSync(uploadDir, chunkFileName(f.chunkIndex), f.chunk)
                metadataJson == [fileName |-> f.fileName, fileSize |-> f.fileSize,
                             totalChunks |-> f.totalChunks,
                             uploadedChunks |-> f.chunkIndex + 1]
            IN /\ uploadDirs' = writeFileSync(uploadDirs, f.uploadId,
                                  writeFileSync(withChunk, "metadata.json", metadataJson))
               /\ uploadLog' = Append(uploadLog, [fields |-> f, status |-> 200])
  /\ UNCHANGED <<handlerVars, pathVars, routingVars>>

\* lines 41-100: the handler.  Without a chunk file or an uploadId it answers
\* 400 (lines 57-59); otherwise it creates the upload's directory if it is
\* missing, writes the chunk file, overwrites metadata.json and answers 200.
UploadChunk(f) ==
  /\ IF f.chunk = 0 \/ f.uploadId = NoUploadId
       THEN /\ uploadLog' = Append(uploadLog, [fields |-> f, status |-> 400])
            /\ uploadDirs' = uploadDirs
       ELSE LET uploadDir == IF f.uploadId \in DOMAIN uploadDirs
                               THEN uploadDirs[f.uploadId] ELSE EmptyFile
                withChunk == writeFileSync(uploadDir, chunkFileName(f.chunkIndex), f.chunk)
                metadataJson == [fileName |-> f.fileName, fileSize |-> f.fileSize,
                             totalChunks |-> f.totalChunks,
                             uploadedChunks |-> f.chunkIndex + 1]
            IN /\ uploadDirs' = writeFileSync(uploadDirs, f.uploadId,
                                  writeFileSync(withChunk, "metadata.json", metadataJson))
               /\ uploadLog' = Append(uploadLog, [fields |-> f, status |-> 200])
  /\ UNCHANGED <<handlerVars, pathVars, routingVars>>

\* Both endpoints side by side: the first MaxEndpointRequests requests to
\* upload-chunked and MaxUploads requests to upload-chunk.
MaxEndpointRequests == 2

Upload ==
  /\ Len(uploadLog) < MaxUploads
  /\ \E f \in UploadInputs : UploadChunk(f)

EndpointsNext ==
  \/ \E r \in 1..MaxEndpointRequests :
       \/ Start(r)
       \/ MetaRead(r)
       \/ MetaWrite(r)
       \/ Analyze(r)
       \/ Aggregate(r)
       \/ Cleanup(r)
  \/ Upload

EndpointsSpec == Init /\ [][EndpointsNext]_vars

\* C15: a request without a chunk file (upload-chunk: without a chunk file
\* or without an uploadId) is answered 400 and changes no file: no chunk,
\* metadata or result file of upload-chunked, nothing under TEMP_DIR.
C15_MissingChunkRejected ==
  [][/\ \A r \in Reqs :
          (pc[r] = "idle" /\ pc'[r] /= "idle" /\ req'[r].chunk = 0) =>
            /\ pc'[r] = "done"
            /\ resp'[r].status = 400
            /\ chunkFiles' = chunkFiles
            /\ metaFiles' = metaFiles
            /\ resultFiles' = resultFiles
     /\ (/\ Len(uploadLog') = Len(uploadLog) + 1
         /\ \/ uploadLog'[Len(uploadLog')].fields.chunk = 0
            \/ uploadLog'[Len(uploadLog')].fields.uploadId = NoUploadId) =>
          /\ uploadLog'[Len(uploadLog')].status = 400
          /\ uploadDirs' = uploadDirs]_vars

\* C15 witness: with a chunk stored by each endpoint, upload-chunked has
\* answered 400 to a later request without a chunk file, and upload-chunk
\* has answered 400 to a later request with a chunk file but no uploadId.
C15_Witness ==
  /\ \E q, r \in Reqs :
       /\ q < r /\ Done(q) /\ resp[q].status = 200 /\ q \notin hist[r].inFlightAtStart
       /\ resp[r].kind = "no_chunk" /\ resp[r].status = 400
       /\ metaFiles[req[q].sessionId] /= EmptyFile
  /\ Len(uploadLog) = 2
  /\ uploadLog[1].status = 200
  /\ uploadLog[2].fields.chunk /= 0
  /\ uploadLog[2].fields.uploadId = NoUploadId
  /\ uploadLog[2].status = 400
  /\ DOMAIN uploadDirs = {uploadLog[1].fields.uploadId}

\* ================================================ file accesses that throw
\* The handler on a file system that can fail.  The writes of the chunk, the
\* metadata and the result file, and the reads of the metadata and of the
\* result files, either succeed as above or throw; a throw takes the request
\* to the catch block of lines 291-297, which answers 500.  A write that
\* throws leaves the metadata or result file as it was; of a chunk file it
\* leaves whatever bytes made it to the disk.
MaxFaultRequests == 2   \* requests issued in one behaviour

RECURSIVE pathString(_)
\* a path as text
pathString(path) ==
  IF path = <<>> THEN "" ELSE "/" \o Head(path) \o pathString(Tail(path))

\* error.message of what an fs call on path throws: a failing open names the
\* path, a failing write does not
FsErrors(path) ==
  {"EACCES: permission denied, open '" \o pathString(path) \o "'",
   "ENOSPC: no space left on device, write"}

\* the bytes of a chunk file whose write threw
Truncated == 0

\* lines 293-296: the body is {error, success: false}
errorResponse(message) ==
  [NoResp EXCEPT !.kind = "error", !.status = 500,
                 !.error = "Chunked upload failed: " \o message]

\* the fields of the JSON body of each kind of response (lines 201, 266-273,
\* 276-288, 293-296)
BodyFields(kind) ==
  CASE kind = "no_chunk" -> {"error"}
    [] kind = "partial" -> {"success", "completed", "sessionId", "chunkIndex",
                            "totalChunks", "receivedChunks", "chunkResult"}
    [] kind = "final" -> {"success", "completed", "sessionId", "chunkIndex",
                          "totalChunks", "result"}
    [] kind = "error" -> {"error", "success"}
    [] OTHER -> {}

\* the catch block, entered by request r from the file access `stage`
Catch(r, stage, message) ==
  /\ pc' = [pc EXCEPT ![r] = "done"]
  /\ resp' = [resp EXCEPT ![r] = errorResponse(message)]
  /\ hist' = [hist EXCEPT ![r].failedAt = stage]

\* the handler with the metadata stored before the chunk bytes: the write of
\* the chunk file throws after storeChunkMetadata has run
FailStoreMetaFirst(r) ==
  /\ pc[r] = "idle"
  /\ \A q \in Reqs : q < r => pc[q] /= "idle"
  /\ \E i \in Inputs(r) :
       /\ i.chunk /= 0
       /\ req' = [req EXCEPT ![r] = i]
       /\ \E message \in FsErrors(chunkPath(<<i.sessionId>>, i.chunkIndex)) :
            /\ pc' = [pc EXCEPT ![r] = "done"]
            /\ resp' = [resp EXCEPT ![r] = errorResponse(message)]
       /\ hist' = [hist EXCEPT ![r] =
            [NoHist EXCEPT
               !.inFlightAtStart = InFlight,
               !.keysAtStart = DOMAIN metaFiles[i.sessionId],
               !.reupload = /\ i.chunkIndex \in DOMAIN metaFiles[i.sessionId]
                            /\ metaFiles[i.sessionId][i.chunkIndex].hash = HashInt(i.chunk),
               !.failedAt = "chunk_write"]]
       /\ metaFiles' = [metaFiles EXCEPT ![i.sessionId] =
            putMetadata(metaFiles[i.sessionId], i.chunkIndex, i.chunk)]
       /\ chunkFiles' \in {chunkFiles,
                           WriteFile(chunkFiles, i.sessionId, i.chunkIndex, Truncated)}
  /\ UNCHANGED <<resultFiles, metadata, timer>>
  /\ UNCHANGED <<pathVars, uploadVars, routingVars>>

\* lines 190-209 when the write of line 209 throws
FailStore(r) ==
  /\ pc[r] = "idle"
  /\ \A q \in Reqs : q < r => pc[q] /= "idle"
  /\ \E i \in Inputs(r) :
       /\ i.chunk /= 0
       /\ req' = [req EXCEPT ![r] = i]
       /\ \E message \in FsErrors(chunkPath(<<i.sessionId>>, i.chunkIndex)) :
            /\ pc' = [pc EXCEPT ![r] = "done"]
            /\ resp' = [resp EXCEPT ![r] = errorResponse(message)]
       /\ hist' = [hist EXCEPT ![r] =
            [NoHist EXCEPT
               !.inFlightAtStart = InFlight,
               !.keysAtStart = DOMAIN metaFiles[i.sessionId],
               !.reupload = /\ i.chunkIndex \in DOMAIN metaFiles[i.sessionId]
                            /\ metaFiles[i.sessionId][i.chunkIndex].hash = HashInt(i.chunk),
               !.failedAt = "chunk_write"]]
       /\ chunkFiles' \in {chunkFiles,
                           WriteFile(chunkFiles, i.sessionId, i.chunkIndex, Truncated)}
  /\ UNCHANGED <<metaFiles, resultFiles, metadata, timer>>
  /\ UNCHANGED <<pathVars, uploadVars, routingVars>>

\* storeChunkMetadata when the read of lines 48-50 throws
FailMetaRead(r) ==
  /\ pc[r] = "meta_read"
  /\ \E message \in FsErrors(metadataPath(<<req[r].sessionId>>)) :
       Catch(r, "metadata_read", message)
  /\ UNCHANGED <<chunkFiles, metaFiles, resultFiles, req, metadata, timer>>
  /\ UNCHANGED <<pathVars, uploadVars, routingVars>>

\* storeChunkMetadata when the write of line 58 throws
FailMetaWrite(r) ==
  /\ pc[r] = "meta_write"
  /\ \E message \in FsErrors(metadataPath(<<req[r].sessionId>>)) :
       Catch(r, "metadata_write", message)
  /\ UNCHANGED <<chunkFiles, metaFiles, resultFiles, req, metadata, timer>>
  /\ UNCHANGED <<pathVars, uploadVars, routingVars>>

\* lines 215-219 when the write of the result file throws
FailAnalyze(r) ==
  /\ pc[r] = "analyze"
  /\ \E message \in FsErrors(resultPath(<<req[r].sessionId>>, req[r].chunkIndex)) :
       Catch(r, "result_write", message)
  /\ UNCHANGED <<chunkFiles, metaFiles, resultFiles, req, metadata, timer>>
  /\ UNCHANGED <<pathVars, uploadVars, routingVars>>

\* lines 233-241 when the read of a result file that exists throws
FailAggregate(r) ==
  /\ pc[r] = "aggregate"
  /\ \E i \in Range(req[r].totalChunks) \cap DOMAIN resultFiles[req[r].sessionId] :
       \E message \in FsErrors(resultPath(<<req[r].sessionId>>, i)) :
         Catch(r, "results_read", message)
  /\ UNCHANGED <<chunkFiles, metaFiles, resultFiles, req, metadata, timer>>
  /\ UNCHANGED <<pathVars, uploadVars, routingVars>>

\* the steps of a request that arrived, without and with a throw
Proceed(r) == MetaRead(r) \/ MetaWrite(r) \/ Analyze(r) \/ Aggregate(r)
Throw(r) == FailMetaRead(r) \/ FailMetaWrite(r) \/ FailAnalyze(r) \/ FailAggregate(r)

FaultNext ==
  \E r \in 1..MaxFaultRequests :
    \/ Start(r)
    \/ FailStore(r)
    \/ MetaRead(r)
    \/ FailMetaRead(r)
    \/ MetaWrite(r)
    \/ FailMetaWrite(r)
    \/ Analyze(r)
    \/ FailAnalyze(r)
    \/ Aggregate(r)
    \/ FailAggregate(r)
    \/ Cleanup(r)

FaultSpec == Init /\ [][FaultNext]_vars

\* Between form.parse and the response the handler is synchronous code (the
\* one await, on processChunk, is on a promise that is already settled): a
\* request that has arrived keeps taking its steps.
Handle(r) == Proceed(r) \/ Throw(r)

FairFaultSpec ==
  /\ Init
  /\ [][FaultNext]_vars
  /\ \A r \in 1..MaxFaultRequests : WF_vars(Handle(r))

\* r is a request whose chunk bytes failed to persist, and q a later upload
\* of the same index to the same session
RetryOf(q, r) ==
  /\ r < q
  /\ hist[r].failedAt = "chunk_write"
  /\ q \in Uploads
  /\ req[q].sessionId = req[r].sessionId
  /\ req[q].chunkIndex = req[r].chunkIndex

\* C22: when the write of the chunk bytes throws, the request is answered
\* with a server error and the received set and count of every session, and
\* the stored results, are what they were before it; a later upload of the
\* same index is handled like any upload: unless a file access of its own
\* throws, it is recorded and answered 200.
C22_StorageFailureNotRecorded ==
  /\ [][\A r \in Reqs :
          (pc[r] = "idle" /\ hist'[r].failedAt = "chunk_write") =>
            /\ resp'[r].status \in 500..599
            /\ metaFiles' = metaFiles
            /\ resultFiles' = resultFiles]_vars
  /\ [](\A q, r \in Reqs :
          (RetryOf(q, r) /\ Done(q) /\ hist[q].failedAt = "none") =>
            /\ resp[q].status = 200
            /\ hist[q].analyzed
            /\ req[q].chunkIndex \in DOMAIN metadata[q])

\* C22 witness: the write of chunk 0 of a two-chunk session threw and was
\* answered 500 with nothing received; the retry of chunk 0 was answered 200
\* with one chunk received.
C22_Witness ==
  \E q, r \in Reqs :
    /\ RetryOf(q, r)
    /\ resp[r].status = 500
    /\ hist[r].keysAtStart = {}
    /\ req[q].totalChunks = 2 /\ req[q].chunkIndex = 0
    /\ hist[q].keysAtStart = {}
    /\ Done(q) /\ resp[q].status = 200 /\ resp[q].receivedChunks = 1
    /\ DOMAIN metaFiles[req[q].sessionId] = {0}

\* the error texts that spell out a path holding both the session id and the
\* chunk index of request r: those of a failing open of its chunk file or of
\* its result file
NamingErrors(r) ==
  {errorResponse("EACCES: permission denied, open '" \o pathString(path) \o "'").error :
     path \in {chunkPath(<<req[r].sessionId>>, req[r].chunkIndex),
               resultPath(<<req[r].sessionId>>, req[r].chunkIndex)}}

\* C23: the failure response of a request that carried a chunk names the
\* chunk index and the session id of the request: its body has the fields
\* chunkIndex and sessionId, or at least its error text spells them out.
C23_FailureNamesChunkAndSession ==
  \A r \in Uploads :
    (Done(r) /\ resp[r].status >= 400) =>
      \/ {"chunkIndex", "sessionId"} \subseteq BodyFields(resp[r].kind)
      \/ resp[r].error \in NamingErrors(r)

\* the uploads to session s that were answered from the catch block
FailedOf(s) == {p \in UploadsOf(s) : hist[p].failedAt /= "none"}

\* C24: in a session whose uploads declare the same totalChunks and indices
\* within it, an upload of index j that arrives after every failed request
\* of the session was answered, none of which carried index j, and that does
\* not throw itself, succeeds and is counted as if the failed requests had not
\* happened: the received set it computes holds only indices uploaded by the
\* requests that did not fail.
C24_FailedChunkLeavesOthersAlone ==
  \A q \in Uploads :
    (/\ Done(q)
     /\ hist[q].failedAt = "none"
     /\ FailedOf(req[q].sessionId) /= {}
     /\ SameTotal(req[q].sessionId)
     /\ \A p \in UploadsOf(req[q].sessionId) : req[p].chunkIndex \in Range(req[p].totalChunks)
     /\ \A p \in FailedOf(req[q].sessionId) :
          /\ p < q
          /\ p \notin hist[q].inFlightAtStart
          /\ req[p].chunkIndex /= req[q].chunkIndex)
    => /\ resp[q].status = 200
       /\ DOMAIN metadata[q] \subseteq
            {req[p].chunkIndex :
               p \in UploadsOf(req[q].sessionId) \ FailedOf(req[q].sessionId)}

\* C26: in an aggregate, chunks_fake + chunks_real is the number of chunk
\* results it was computed from, and the consistency score is the fraction
\* max(chunks_fake, chunks_real) / totalChunks of the session (stated for the
\* sessions whose uploads declare one totalChunks and indices within it, and
\* are handled one at a time).
C26_CountsAndConsistency ==
  \A r \in Reqs :
    (/\ resp[r].completed
     /\ WellFormed(req[r].sessionId)
     /\ Sequential(req[r].sessionId)) =>
      LET result == resp[r].result
          score == result.consistency_score
      IN /\ result.chunks_fake + result.chunks_real = Cardinality(hist[r].loaded)
         /\ score[2] /= 0
         /\ score[1] * req[r].totalChunks
              = Max(result.chunks_fake, result.chunks_real) * score[2]

\* C27: every chunk request that arrived is eventually answered (partial
\* progress, final aggregate or error), and at no point does it wait for
\* another request: whatever the other requests are doing, its next step
\* can be taken.  (A request is idle, then handled, then answered for good:
\* "again and again idle or answered" is "answered some time after it
\* arrived".)
C27_EveryRequestAnswered ==
  /\ [](\A r \in Reqs : r \in InFlight => ENABLED Proceed(r))
  /\ \A r \in Reqs :
       []<>(\/ pc[r] = "idle"
            \/ Done(r) /\ resp[r].kind \in {"no_chunk", "partial", "final", "error"})

\* C27 witness: the first chunk of a two-chunk session was answered with
\* partial progress while the request carrying the second chunk, which
\* arrived first, was still being handled.
C27_Witness ==
  \E q, r \in Reqs :
    /\ q < r
    /\ req[q].sessionId = req[r].sessionId
    /\ req[q].totalChunks = 2 /\ req[r].totalChunks = 2
    /\ req[q].chunkIndex = 1 /\ req[r].chunkIndex = 0
    /\ q \in InFlight
    /\ Done(r) /\ resp[r].kind = "partial"

\* ===================================================== prediction endpoints
\* src/api/predict.js and src/unnamed/part_000, the version of the same
\* endpoint with deterministic routing.  A handler has no await after
\* form.parse and keeps nothing between requests: a request is one step.
\*
\* A file is its length in bytes and two digests, which are not computed:
\* head is the first two bytes of the md5 of its first 1024 bytes, hashInt
\* the first four bytes of the md5 of its first 100 KiB as a number.  A
\* filename is the sequence of its characters.
MaxPredictions == 2   \* requests handled in one behaviour

MiB == 1024 * 1024

PredictSizes == {1 * MiB, 3 * MiB, 12 * MiB}
PredictHeads == {<<58, 1>>, <<196, 0>>}
PredictHashInts == {5, 125, 70500}
PredictFiles == [size : PredictSizes, head : PredictHeads, hashInt : PredictHashInts]

\* "video.mp4", "slow.mp4", "HD.mkv", "tiktok"
PredictFilenames ==
  {<<"v", "i", "d", "e", "o", ".", "m", "p", "4">>,
   <<"s", "l", "o", "w", ".", "m", "p", "4">>,
   <<"H", "D", ".", "m", "k", "v">>,
   <<"t", "i", "k", "t", "o", "k">>}

UpperCase == <<"A", "B", "C", "D", "E", "F", "G", "H", "I", "J", "K", "L", "M",
               "N", "O", "P", "Q", "R", "S", "T", "U", "V", "W", "X", "Y", "Z">>
LowerCase == <<"a", "b", "c", "d", "e", "f", "g", "h", "i", "j", "k", "l", "m",
               "n", "o", "p", "q", "r", "s", "t", "u", "v", "w", "x", "y", "z">>

\* String.prototype.toLowerCase
toLowerCase(chars) ==
  [k \in 1..Len(chars) |->
     IF \E n \in 1..26 : UpperCase[n] = chars[k]
       THEN LowerCase[CHOOSE n \in 1..26 : UpperCase[n] = chars[k]]
       ELSE chars[k]]

RECURSIVE asString(_)
\* the string of a sequence of characters
asString(chars) == IF chars = <<>> THEN "" ELSE Head(chars) \o asString(Tail(chars))

\* String.prototype.includes, for a word without upper case
includes(chars, word) ==
  \E i \in 1..(Len(chars) - Len(word) + 1) :
    asString(SubSeq(chars, i, i + Len(word) - 1)) = word

\* /word|word|.../i.test(filename)
testIgnoreCase(words, filename) ==
  \E word \in words : includes(toLowerCase(filename), word)

\* filename.split('.').pop().toLowerCase()
fileExtension(filename) ==
  LET dots == {k \in 1..Len(filename) : filename[k] = "."}
      last == IF dots = {} THEN 0 ELSE CHOOSE k \in dots : \A j \in dots : j <= k
  IN asString(toLowerCase(SubSeq(filename, last + 1, Len(filename))))

\* Math.round(fileSize / (1024 * 1024) * 100) / 100, in hundredths of a MB
fileSizeMB(fileSize) == (fileSize * 100 + MiB \div 2) \div MiB

\* part_000, lines 35-70
extractDeterministicSignals(fileBuffer, filename) ==
  LET fileSize == fileBuffer.size
      quality == fileBuffer.head[2] % 3
  IN [file_size_mb |-> fileSizeMB(fileSize),
      file_size_category |-> IF fileSizeMB(fileSize) < 500 THEN "SMALL"
                             ELSE IF fileSizeMB(fileSize) < 2000 THEN "MEDIUM"
                             ELSE "LARGE",
      estimated_bitrate_category |-> IF fileSize < 5000000 THEN "LOW"
                                     ELSE IF fileSize < 20000000 THEN "MEDIUM"
                                     ELSE "HIGH",
      \* hash.substring(0, 2), kept as the byte it spells
      file_hash_prefix |-> fileBuffer.head[1],
      \* hash[0] < '8': the first hex digit is below 8
      complexity_indicator |-> IF fileBuffer.head[1] < 128 THEN "LOW_COMPLEXITY"
                               ELSE "HIGH_COMPLEXITY",
      filename_indicators |->
        [has_compressed_keywords |->
           testIgnoreCase({"compress", "low", "small", "lite"}, filename),
         has_hd_keywords |->
           testIgnoreCase({"hd", "1080", "720", "4k", "uhd"}, filename),
         has_mobile_keywords |->
           testIgnoreCase({"mobile", "phone", "whatsapp", "telegram"}, filename),
         has_social_keywords |->
           testIgnoreCase({"instagram", "tiktok", "snapchat", "facebook"}, filename)],
      file_extension |-> fileExtension(filename),
      estimated_quality_band |-> IF quality = 0 THEN "LOW"
                                 ELSE IF quality = 1 THEN "MEDIUM" ELSE "HIGH"]

\* `${x}` of a number given in hundredths: 300 is "3", 250 "2.5", 1205 "12.05"
formatHundredths(x) ==
  ToString(x \div 100)
    \o (IF x % 100 = 0 THEN ""
        ELSE IF x % 10 = 0 THEN "." \o ToString((x % 100) \div 10)
        ELSE IF x % 100 < 10 THEN ".0" \o ToString(x % 100)
        ELSE "." \o ToString(x % 100))

\* a policy that lets the time of the request decide
applyRoutingPolicyByClock(signals) ==
  [specialists_selected |->
     IF now = 0 THEN <<"BG-Model-N">> ELSE <<"BG-Model-N", "AV-Model-N">>,
   routing_reasons |->
     IF now = 0 THEN <<>>
     ELSE <<"Audio-visual analysis: file size suggests audio content present">>,
   routing_type |-> "DETERMINISTIC",
   signals_used |-> signals]

\* part_000, lines 76-125
applyDeterministicRoutingPolicy(signals) ==
  LET names == signals.filename_indicators
      rule1 == \/ signals.estimated_bitrate_category = "LOW"
               \/ signals.file_size_category = "SMALL"
               \/ names.has_compressed_keywords
               \/ names.has_social_keywords
      rule2 == \/ signals.complexity_indicator = "LOW_COMPLEXITY"
               \/ signals.estimated_quality_band = "LOW"
               \/ names.has_mobile_keywords
      rule3 == \/ signals.file_size_category = "LARGE" /\ names.has_mobile_keywords
               \/ signals.file_size_category = "SMALL" /\ names.has_hd_keywords
               \/ signals.file_extension = "webm"
               \/ signals.file_extension = "mkv"
      rule4 == signals.file_size_mb > 200 /\ ~names.has_compressed_keywords
      rule5 == \/ signals.file_size_mb > 1000
               \/ signals.complexity_indicator = "HIGH_COMPLEXITY"
      specialists ==
        <<"BG-Model-N">>
          \o (IF rule1 THEN <<"CM-Model-N">> ELSE <<>>)
          \o (IF rule2 THEN <<"LL-Model-N">> ELSE <<>>)
          \o (IF rule3 THEN <<"RR-Model-N">> ELSE <<>>)
          \o (IF rule4 THEN <<"AV-Model-N">> ELSE <<>>)
          \o (IF rule5 THEN <<"TM-Model-N">> ELSE <<>>)
      routingReasons ==
        (IF rule1
           THEN <<"Compression artifacts likely: " \o signals.estimated_bitrate_category
                    \o " bitrate, " \o signals.file_size_category \o " file size">>
           ELSE <<>>)
          \o (IF rule2
                THEN <<"Low-light conditions likely: " \o signals.complexity_indicator
                         \o " complexity, " \o signals.estimated_quality_band
                         \o " quality band">>
                ELSE <<>>)
          \o (IF rule3
                THEN <<"Resolution inconsistencies likely: size/format mismatch detected">>
                ELSE <<>>)
          \o (IF rule4
                THEN <<"Audio-visual analysis: file size suggests audio content present">>
                ELSE <<>>)
          \o (IF rule5
                THEN <<"Temporal analysis: " \o formatHundredths(signals.file_size_mb)
                         \o "MB file with " \o signals.complexity_indicator
                         \o " complexity">>
                ELSE <<>>)
  IN [specialists_selected |-> Dedupe(specialists),
      routing_reasons |-> routingReasons,
      routing_type |-> "DETERMINISTIC",
      signals_used |-> signals]

\* x >> n for a non-negative x below 2^31
shiftRight(x, n) == x \div (2 ^ n)

\* Math.floor(Math.max(1, fileSize / (1024 * 1024 * 2)) * 30)
frameCount(fileSize) ==
  IF fileSize <= 2 * MiB THEN 30 ELSE (fileSize * 30) \div (2 * MiB)

\* part_000, lines 157-181
analyzeVideoFileV2(fileBuffer, filename) ==
  LET hashInt == fileBuffer.hashInt
  IN [frame_count |-> frameCount(fileBuffer.size),
      brightness |-> 60 + (hashInt % 140),
      contrast |-> 15 + (shiftRight(hashInt, 8) % 70),
      blur_score |-> 30 + (shiftRight(hashInt, 16) % 140),
      compression_level |-> shiftRight(hashInt, 12) % 100,
      motion_complexity |-> shiftRight(hashInt, 4) % 100,
      audio_quality |-> 50 + (shiftRight(hashInt, 20) % 50),
      file_hash |-> hashInt,
      file_size |-> fileBuffer.size]

\* MODELS of part_000, lines 22-29, by name: weight * accuracy in 1/100, the
\* specialty, and modelKey.charCodeAt(0) % 8
ModelInfo(name) ==
  CASE name = "BG-Model-N" -> [weight |-> 54, specialty |-> "background_analysis", shift |-> 2]
    [] name = "AV-Model-N" -> [weight |-> 53, specialty |-> "audiovisual_sync", shift |-> 1]
    [] name = "CM-Model-N" -> [weight |-> 140, specialty |-> "compression_artifacts", shift |-> 3]
    [] name = "RR-Model-N" -> [weight |-> 56, specialty |-> "resolution_consistency", shift |-> 2]
    [] name = "LL-Model-N" -> [weight |-> 56, specialty |-> "lighting_analysis", shift |-> 4]
    [] name = "TM-Model-N" -> [weight |-> 93, specialty |-> "temporal_consistency", shift |-> 4]

\* part_000, lines 186-241, confidences in 1/10000
generatePredictionV2(videoAnalysis, routingResult) ==
  LET hashInt == videoAnalysis.file_hash
      baseScore == (hashInt % 1000) * 10
      selected == routingResult.specialists_selected
      modelConf(name) ==
        LET info == ModelInfo(name)
            adjusted ==
              baseScore
                + (CASE info.specialty = "compression_artifacts" ->
                          (IF videoAnalysis.compression_level > 60 THEN 2500 ELSE -1500)
                     [] info.specialty = "lighting_analysis" ->
                          (IF videoAnalysis.brightness < 70 \/ videoAnalysis.brightness > 180
                             THEN 2000 ELSE -1000)
                     [] OTHER -> 0)
                + ((shiftRight(hashInt, info.shift) % 200) - 100) * 10
        IN Max(500, Min(9500, adjusted))
      weightedSum == SumSeq([k \in 1..Len(selected) |->
                               modelConf(selected[k]) * ModelInfo(selected[k]).weight])
      totalWeight == SumSeq([k \in 1..Len(selected) |-> ModelInfo(selected[k]).weight])
      times(x, percent) == (x * percent) \div 100
      confidenceModifier ==
        times(times(times(10000,
                          IF videoAnalysis.brightness < 80 THEN 85 ELSE 100),
                    IF videoAnalysis.blur_score > 120 THEN 80 ELSE 100),
              IF videoAnalysis.compression_level > 80 THEN 75 ELSE 100)
  IN [is_fake |-> weightedSum > 5000 * totalWeight,
      confidence |-> Max(500, Min(9500, RoundDiv(weightedSum, totalWeight))),
      model_predictions |-> [k \in 1..Len(selected) |->
                               <<selected[k], modelConf(selected[k])>>],
      confidence_modifier |-> confidenceModifier]

\* part_000, lines 130-152
generateRoutingExplanation(routingResult) ==
  LET signals_used == routingResult.signals_used
  IN [routing_decision |-> "DETERMINISTIC",
      specialists_selected |-> routingResult.specialists_selected,
      total_specialists |-> Len(routingResult.specialists_selected),
      routing_reasons |-> routingResult.routing_reasons,
      deterministic_signals |->
        [file_characteristics |->
           [size_mb |-> signals_used.file_size_mb,
            size_category |-> signals_used.file_size_category,
            bitrate_category |-> signals_used.estimated_bitrate_category,
            quality_band |-> signals_used.estimated_quality_band,
            complexity |-> signals_used.complexity_indicator],
         filename_analysis |-> signals_used.filename_indicators,
         file_format |-> signals_used.file_extension]]

\* src/api/predict.js, lines 37-53
analyzeVideoFile(fileBuffer, filename) ==
  LET hashInt == fileBuffer.hashInt
  IN [frame_count |-> frameCount(fileBuffer.size),
      brightness |-> 80 + (hashInt % 120),
      contrast |-> 20 + (shiftRight(hashInt, 8) % 60),
      blur_score |-> 50 + (shiftRight(hashInt, 16) % 100),
      file_hash |-> hashInt,
      file_size |-> fileBuffer.size]

\* MODELS of src/api/predict.js, lines 23-29, in the order of Object.entries
PredictModels ==
  <<"BG-Model-N", "AV-Model-N", "CM-Model-N", "RR-Model-N", "LL-Model-N">>

\* src/api/predict.js, lines 55-90, confidences in 1/10000.  Every model
\* confidence is a multiple of 4, so the weighted mean
\* sum(c * c * w) / sum(c * w) is computed on c / 4, the quotient and the
\* remainder of each term taken separately to stay within 32 bits.
generatePrediction(videoAnalysis) ==
  LET hashInt == videoAnalysis.file_hash
      baseScore == hashInt % 1000
      fakeBias == (IF videoAnalysis.contrast < 30 THEN 1000 ELSE 0)
                    + (IF videoAnalysis.blur_score < 50 THEN 1500 ELSE 0)
      rawConfidence ==
        Max(1000, Min(9900, 5000 + (baseScore - 500) * 8 + fakeBias))
      modelConf(name) ==
        Max(1000, Min(9900,
            rawConfidence + (shiftRight(hashInt, ModelInfo(name).shift) % 100) * 20 - 1000))
      quarter(name) == modelConf(name) \div 4
      weight(name) == ModelInfo(name).weight * quarter(name)
      totalWeight == SumSeq([k \in 1..Len(PredictModels) |-> weight(PredictModels[k])])
      term(name) == quarter(name) * weight(name)
      quotient ==
        SumSeq([k \in 1..Len(PredictModels) |-> term(PredictModels[k]) \div totalWeight])
          + (SumSeq([k \in 1..Len(PredictModels) |-> term(PredictModels[k]) % totalWeight])
               \div totalWeight)
      remainder ==
        SumSeq([k \in 1..Len(PredictModels) |-> term(PredictModels[k]) % totalWeight])
          % totalWeight
      finalConfidence == 4 * quotient + RoundDiv(4 * remainder, totalWeight)
  IN [is_fake |-> quotient > 1250 \/ (quotient = 1250 /\ remainder > 0),
      confidence |-> Max(1000, Min(9900, finalConfidence)),
      model_predictions |-> [k \in 1..Len(PredictModels) |->
                               <<PredictModels[k], modelConf(PredictModels[k])>>],
      confidence_modifier |->
        IF videoAnalysis.brightness < 80 THEN 8500
        ELSE IF videoAnalysis.brightness > 200 THEN 9000 ELSE 10000]

\* the requests the two prediction handlers are given: the method, the files
\* of the form (files.file) and, with a file, its originalFilename
PredictRequests ==
  {[method |-> m, file |-> <<>>, originalFilename |-> <<>>] : m \in {"OPTIONS", "GET", "POST"}}
    \cup {[method |-> "POST", file |-> <<f>>, originalFilename |-> n] :
            f \in PredictFiles, n \in PredictFilenames \cup {<<>>}}

\* file.originalFilename || 'video.mp4'
filenameOf(request) ==
  IF request.originalFilename = <<>>
    THEN <<"v", "i", "d", "e", "o", ".", "m", "p", "4">>
    ELSE request.originalFilename

\* the confidence_level of src/api/predict.js, lines 136-137
confidenceLevel(confidence) ==
  IF confidence >= 8500 \/ confidence <= 1500 THEN "high"
  ELSE IF confidence >= 6500 \/ confidence <= 3500 THEN "medium"
  ELSE "low"

\* src/api/predict.js, lines 115-121
modelsUsedByConfidence(videoAnalysis, prediction) ==
  <<"BG-Model-N">>
    \o (IF prediction.confidence < 8500 /\ prediction.confidence > 1500
          THEN (IF videoAnalysis.brightness < 80 THEN <<"LL-Model-N">> ELSE <<>>)
                 \o (IF videoAnalysis.blur_score < 100 THEN <<"CM-Model-N">> ELSE <<>>)
                 \o <<"AV-Model-N">>
                 \o (IF prediction.confidence > 3000 /\ prediction.confidence < 7000
                       THEN <<"RR-Model-N">> ELSE <<>>)
          ELSE <<>>)

\* src/api/predict.js, lines 97-159: what the handler answers to a request
\* that arrives at time at
predictResponse(request, at) ==
  IF request.method = "OPTIONS" THEN [status |-> 200, body |-> [ended |-> TRUE]]
  ELSE IF request.method /= "POST"
    THEN [status |-> 405, body |-> [error |-> "Method not allowed"]]
  ELSE IF request.file = <<>>
    THEN [status |-> 400, body |-> [error |-> "No file uploaded"]]
  ELSE
    LET fileBuffer == request.file[1]
        filename == filenameOf(request)
        videoAnalysis == analyzeVideoFile(fileBuffer, filename)
        prediction == generatePrediction(videoAnalysis)
        modelsUsed == modelsUsedByConfidence(videoAnalysis, prediction)
    IN [status |-> 200,
        body |->
          [prediction |-> IF prediction.is_fake THEN "fake" ELSE "real",
           confidence |-> prediction.confidence,
           faces_analyzed |-> Max(1, videoAnalysis.frame_count \div 30),
           models_used |-> modelsUsed,
           analysis |->
             [routing |->
                [confidence_level |-> confidenceLevel(prediction.confidence),
                 specialists_invoked |-> Len(modelsUsed),
                 video_characteristics |->
                   [is_compressed |-> videoAnalysis.blur_score < 100,
                    is_low_light |-> videoAnalysis.brightness < 80]],
              model_predictions |-> prediction.model_predictions,
              frames_analyzed |-> Min(videoAnalysis.frame_count, 30)],
           filename |-> asString(filename),
           file_size |-> videoAnalysis.file_size,
           timestamp |-> at]]

\* part_000, lines 248-320: what the handler with the deterministic routing
\* answers to a request that arrives at time at
deterministicResponse(request, at) ==
  IF request.method = "OPTIONS" THEN [status |-> 200, body |-> [ended |-> TRUE]]
  ELSE IF request.method /= "POST"
    THEN [status |-> 405, body |-> [error |-> "Method not allowed"]]
  ELSE IF request.file = <<>>
    THEN [status |-> 400, body |-> [error |-> "No file uploaded"]]
  ELSE
    LET fileBuffer == request.file[1]
        filename == filenameOf(request)
        deterministicSignals == extractDeterministicSignals(fileBuffer, filename)
        routingResult == applyDeterministicRoutingPolicy(deterministicSignals)
        videoAnalysis == analyzeVideoFileV2(fileBuffer, filename)
        prediction == generatePredictionV2(videoAnalysis, routingResult)
    IN [status |-> 200,
        body |->
          [prediction |-> IF prediction.is_fake THEN "fake" ELSE "real",
           confidence |-> prediction.confidence,
           faces_analyzed |-> Max(1, videoAnalysis.frame_count \div 30),
           models_used |-> routingResult.specialists_selected,
           routing_explanation |-> generateRoutingExplanation(routingResult),
           analysis |->
             [routing |->
                [routing_type |-> "DETERMINISTIC",
                 specialists_invoked |-> Len(routingResult.specialists_selected),
                 routing_reasons |-> routingResult.routing_reasons,
                 video_characteristics |->
                   [is_compressed |->
                      deterministicSignals.estimated_bitrate_category = "LOW",
                    is_low_light |->
                      deterministicSignals.estimated_quality_band = "LOW",
                    file_size_category |-> deterministicSignals.file_size_category,
                    complexity |-> deterministicSignals.complexity_indicator]],
              model_predictions |-> prediction.model_predictions,
              frames_analyzed |-> Min(videoAnalysis.frame_count, 30)],
           filename |-> asString(filename),
           file_size |-> videoAnalysis.file_size,
           timestamp |-> at]]

\* src/api/predict.js, handler: one request answered
Predict ==
  /\ Len(predictLog) < MaxPredictions
  /\ \E request \in PredictRequests :
       predictLog' = Append(predictLog,
                            [endpoint |-> "predict",
                             request |-> request,
                             response |-> predictResponse(request, now)])
  /\ UNCHANGED <<handlerVars, pathVars, uploadVars>>

\* part_000, handler: one request answered
PredictDeterministic ==
  /\ Len(predictLog) < MaxPredictions
  /\ \E request \in PredictRequests :
       predictLog' = Append(predictLog,
                            [endpoint |-> "deterministic",
                             request |-> request,
                             response |-> deterministicResponse(request, now)])
  /\ UNCHANGED <<handlerVars, pathVars, uploadVars>>

RoutingNext == Predict \/ PredictDeterministic \/ Tick

RoutingSpec == Init /\ [][RoutingNext]_vars

\* the answered predictions of one endpoint
PredictionsOf(endpoint) ==
  {k \in 1..Len(predictLog) :
     /\ predictLog[k].endpoint = endpoint
     /\ predictLog[k].request.method = "POST"
     /\ predictLog[k].request.file /= <<>>
     /\ predictLog[k].response.status = 200}

SameFileAndName(i, j) ==
  /\ predictLog[i].request.file = predictLog[j].request.file
  /\ filenameOf(predictLog[i].request) = filenameOf(predictLog[j].request)

\* C28: two predictions of the deterministic endpoint for the same file bytes
\* and the same filename carry the same specialists_selected (models_used)
\* and the same routing_reasons, whenever they are made
C28_RoutingDeterministic ==
  \A i, j \in PredictionsOf("deterministic") :
    SameFileAndName(i, j) =>
      LET a == predictLog[i].response.body
          b == predictLog[j].response.body
      IN /\ a.models_used = b.models_used
         /\ a.routing_explanation.specialists_selected
              = b.routing_explanation.specialists_selected
         /\ a.models_used = a.routing_explanation.specialists_selected
         /\ a.analysis.routing.routing_reasons = b.analysis.routing.routing_reasons
         /\ a.routing_explanation.routing_reasons
              = b.routing_explanation.routing_reasons

C28_Witness ==
  \E i, j \in PredictionsOf("deterministic") :
    /\ i < j
    /\ SameFileAndName(i, j)
    /\ predictLog[i].response.body.timestamp
         /= predictLog[j].response.body.timestamp
    /\ Len(predictLog[i].response.body.models_used) > 2
    /\ Len(predictLog[i].response.body.analysis.routing.routing_reasons) > 1

\* the file characteristics the two endpoints look at, apart from the
\* hash-derived base score of the confidence
FileSignals(request) ==
  LET videoAnalysis == analyzeVideoFile(request.file[1], filenameOf(request))
  IN <<extractDeterministicSignals(request.file[1], filenameOf(request)),
       videoAnalysis.brightness, videoAnalysis.contrast, videoAnalysis.blur_score,
       videoAnalysis.frame_count, videoAnalysis.file_size>>

\* C29: two predictions of /api/predict whose files agree on every file
\* signal select the same models, whatever their confidence
C29_ModelsIndependentOfConfidence ==
  \A i, j \in PredictionsOf("predict") :
    FileSignals(predictLog[i].request) = FileSignals(predictLog[j].request) =>
      predictLog[i].response.body.models_used
        = predictLog[j].response.body.models_used

\* C30: the deterministic endpoint routes every file larger than 2 MB to
\* AV-Model-N and every file smaller than 5 MB to CM-Model-N, whatever the
\* filename
C30_RoutingTable ==
  \A k \in PredictionsOf("deterministic") :
    LET size_mb ==
          extractDeterministicSignals(predictLog[k].request.file[1],
                                      filenameOf(predictLog[k].request)).file_size_mb
        models == Elements(predictLog[k].response.body.models_used)
    IN /\ size_mb > 200 => "AV-Model-N" \in models
       /\ size_mb < 500 => "CM-Model-N" \in models

\* ===================================================== order of arrival
\* the uploads of session s are n requests, one for each index 0..n-1, all
\* declaring totalChunks = n and the same fileSize, in whatever order and
\* however they overlap
OnePerIndex(s, n) ==
  /\ ReqsOf(s) = UploadsOf(s)
  /\ Cardinality(UploadsOf(s)) = n
  /\ {req[r].chunkIndex : r \in UploadsOf(s)} = Range(n)
  /\ \A q, r \in UploadsOf(s) :
       req[r].totalChunks = n /\ req[q].fileSize = req[r].fileSize

\* the bytes uploaded for index i of session s
BytesOf(s, i) == req[CHOOSE r \in UploadsOf(s) : req[r].chunkIndex = i].chunk

\* the aggregate of the per-index chunk results of session s
AggregateOfChunks(s, n, fileSize) ==
  aggregateChunkResults([k \in 1..n |-> processChunk(BytesOf(s, k - 1), k - 1, s)],
                        fileSize)

\* C31: the aggregate a completing request returns is the aggregate of the
\* per-index results of the chunks uploaded, whatever the order in which
\* they arrived: prediction, confidence, models_used and chunk breakdown of
\* two runs with the same chunks are the same
C31_AggregateIndependentOfOrder ==
  \A r \in Reqs : \A n \in TotalInputs :
    (resp[r].completed /\ OnePerIndex(req[r].sessionId, n)) =>
      LET expected == AggregateOfChunks(req[r].sessionId, n, req[r].fileSize)
          got == resp[r].result
      IN /\ got.prediction = expected.prediction
         /\ got.confidence_is_nan = expected.confidence_is_nan
         /\ got.confidence = expected.confidence
         /\ Elements(got.models_used) = Elements(expected.models_used)
         /\ got.chunk_breakdown = expected.chunk_breakdown

\* ======================================================= declared fileSize
\* the chunk results the aggregation of request r read, in index order
LoadedResults(r) ==
  sortByChunkIndex(loadChunkResults(req[r].sessionId, 0, req[r].totalChunks))

\* C32: whatever fileSize the completing request declares, 0 included, the
\* confidence of the aggregate is a number between the smallest and the
\* largest confidence of the aggregated chunk results, and it is the same
\* for every other declared fileSize
C32_ConfidenceWithinChunkRange ==
  \A r \in Reqs :
    (resp[r].completed /\ timer[r] = "pending") =>
      LET result == resp[r].result
          confidences == {result.chunk_breakdown[k].confidence :
                            k \in 1..Len(result.chunk_breakdown)}
      IN /\ ~result.confidence_is_nan
         /\ \E c \in confidences : c <= result.confidence
         /\ \E c \in confidences : result.confidence <= c
         /\ \A fileSize \in AggFileSizes :
              LET other == aggregateChunkResults(LoadedResults(r), fileSize)
              IN /\ other.confidence_is_nan = result.confidence_is_nan
                 /\ other.confidence = result.confidence

\* ============================================ upload-chunk.js on its own
\* The endpoint of src/api/upload-chunk.js with more uploads, indices,
\* payloads and upload ids than it has next to upload-chunked.js.
MaxChunkUploads == 3  \* requests to upload-chunk in one behaviour

ChunkUploadInputs ==
  [chunk : 0..2, chunkIndex : 0..2, totalChunks : {3},
   uploadId : {"U", "V", NoUploadId},
   fileName : Filenames, fileSize : FileSizes]

ChunkUpload ==
  /\ Len(uploadLog) < MaxChunkUploads
  /\ \E f \in ChunkUploadInputs : UploadChunk(f)

UploadSpec == Init /\ [][ChunkUpload]_vars

\* the chunk files stored for an upload id
StoredChunks(uploadId) == DOMAIN uploadDirs[uploadId] \ {"metadata.json"}

\* C33: after any sequence of successful uploads for an uploadId, the
\* uploadedChunks of its metadata.json is the number of distinct chunk
\* indices stored for it
C33_UploadedChunksCountsStored ==
  \A u \in DOMAIN uploadDirs :
    "metadata.json" \in DOMAIN uploadDirs[u] =>
      uploadDirs[u]["metadata.json"].uploadedChunks = Cardinality(StoredChunks(u))

\* ===================================================== frame of the cleanup
\* C34: the cleanup scheduled when session S completed leaves the chunk,
\* result and metadata files of every other session as they are, and once
\* it has run no chunk or result file of S with an index outside
\* 0..totalChunks-1 is left (stated for the cleanups that run while no
\* request of S is being handled, all requests of S having declared the
\* same totalChunks)
C34_CleanupDeletesOnlyItsSession ==
  [][\A r \in Reqs :
       (/\ timer[r] = "pending" /\ timer'[r] = "fired"
        /\ SameTotal(req[r].sessionId)
        /\ \A q \in InFlight : req[q].sessionId /= req[r].sessionId) =>
         /\ \A s \in Sessions \ {req[r].sessionId} :
              /\ chunkFiles'[s] = chunkFiles[s]
              /\ resultFiles'[s] = resultFiles[s]
              /\ metaFiles'[s] = metaFiles[s]
         /\ DOMAIN chunkFiles'[req[r].sessionId] \subseteq Range(req[r].totalChunks)
         /\ DOMAIN resultFiles'[req[r].sessionId] \subseteq Range(req[r].totalChunks)
         /\ chunkFiles'[req[r].sessionId] = EmptyFile
         /\ resultFiles'[req[r].sessionId] = EmptyFile]_vars

\* ============================================== overwrite by (session, index)
\* the uploads of index i to session s that were answered 200
SuccessfulUploads(s, i) ==
  {r \in UploadsOf(s) : req[r].chunkIndex = i /\ Done(r) /\ resp[r].status = 200}

\* the most recent of them
LastSuccessful(s, i) ==
  CHOOSE r \in SuccessfulUploads(s, i) : \A q \in SuccessfulUploads(s, i) : q <= r

\* C35: chunk storage is keyed by (session, index) and overwritten: the
\* stored bytes, the metadata hash and the stored result of (s, i) are those
\* of the most recent successful upload of index i to s, and a step of an
\* upload of (s, i) changes the stored bytes and result of no other index or
\* session.  The first half is stated for the sessions whose requests were
\* handled one after the other and are all answered, no write of a chunk
\* file having thrown, before any cleanup of the session.
C35_StoredIsLastSuccessfulUpload ==
  /\ [](\A s \in Sessions : \A i \in IdxInputs :
          (/\ SuccessfulUploads(s, i) /= {}
           /\ Sequential(s)
           /\ NotPurged(s)
           /\ \A r \in ReqsOf(s) : Done(r) /\ hist[r].failedAt /= "chunk_write") =>
            LET bytes == req[LastSuccessful(s, i)].chunk
            IN /\ i \in DOMAIN chunkFiles[s] /\ chunkFiles[s][i] = bytes
               /\ i \in DOMAIN metaFiles[s] /\ metaFiles[s][i].hash = HashInt(bytes)
               /\ i \in DOMAIN resultFiles[s]
               /\ resultFiles[s][i] = processChunk(bytes, i, s))
  /\ [][\A s \in Sessions : \A i \in IdxInputs :
          (/\ timer' = timer
           /\ \/ (i \in DOMAIN chunkFiles[s]) /= (i \in DOMAIN chunkFiles'[s])
              \/ (i \in DOMAIN resultFiles[s]) /= (i \in DOMAIN resultFiles'[s])
              \/ /\ i \in DOMAIN chunkFiles[s] \cap DOMAIN chunkFiles'[s]
                 /\ chunkFiles[s][i] /= chunkFiles'[s][i]
              \/ /\ i \in DOMAIN resultFiles[s] \cap DOMAIN resultFiles'[s]
                 /\ resultFiles[s][i] /= resultFiles'[s][i]) =>
            \E r \in Reqs :
              pc'[r] /= pc[r] /\ req'[r].sessionId = s /\ req'[r].chunkIndex = i]_vars

\* ========================================================= processChunk
\* processChunk over more payloads: two requests, one to session "A" and one
\* to session "B", have stored their chunk and their metadata entry and are
\* about to analyse it.
NumChunkBuffers == 12   \* distinct chunk payloads

ChunkBuffers == 1..NumChunkBuffers

ChunkInit ==
  \E payload \in [1..2 -> ChunkBuffers], index \in [1..2 -> 0..1],
     total \in [1..2 -> TotalInputs] :
    LET sessionOf == [r \in 1..2 |-> IF r = 1 THEN "A" ELSE "B"]
        requestOf(s) == IF s = "A" THEN 1 ELSE 2
        meta == [s \in Sessions |->
                   [i \in {index[requestOf(s)]} |->
                      [size |-> Length(payload[requestOf(s)]),
                       hash |-> HashInt(payload[requestOf(s)])]]]
    IN /\ chunkFiles = [s \in Sessions |->
                          [i \in {index[requestOf(s)]} |-> payload[requestOf(s)]]]
       /\ metaFiles = meta
       /\ resultFiles = [s \in Sessions |-> EmptyFile]
       /\ pc = [r \in Reqs |-> IF r \in 1..2 THEN "analyze" ELSE "idle"]
       /\ req = [r \in Reqs |->
            IF r \in 1..2
              THEN [sessionId |-> sessionOf[r], chunkIndex |-> index[r],
                    totalChunks |-> total[r], fileSize |-> 4096, chunk |-> payload[r]]
              ELSE NoReq]
       /\ metadata = [r \in Reqs |-> IF r \in 1..2 THEN meta[sessionOf[r]] ELSE EmptyFile]
       /\ resp = [r \in Reqs |-> NoResp]
       /\ timer = [r \in Reqs |-> "none"]
       /\ hist = [r \in Reqs |->
            IF r = 2 THEN [NoHist EXCEPT !.inFlightAtStart = {1}] ELSE NoHist]
       /\ PathInit
       /\ UploadInit
       /\ RoutingInit

ChunkNext == \E r \in 1..2 : Analyze(r) \/ Aggregate(r) \/ Cleanup(r)

ChunkSpec == ChunkInit /\ [][ChunkNext]_vars

\* the (session, index) pairs with a stored chunk result
StoredResultKeys == {k \in Sessions \X IdxInputs : k[2] \in DOMAIN resultFiles[k[1]]}

\* C36: every chunk result processChunk produced has a confidence within
\* [0.1, 0.9] and a prediction that is fake when the confidence is above 0.5
\* and real otherwise; two results computed from the same bytes, whatever
\* their session and index, have the same prediction and confidence
C36_ChunkResultWithinRange ==
  /\ \A k \in StoredResultKeys :
       LET result == resultFiles[k[1]][k[2]]
       IN /\ result.confidence >= 1000
          /\ result.confidence <= 9000
          /\ result.prediction \in {"fake", "real"}
          /\ result.prediction = "fake" <=> result.confidence > 5000
  /\ \A k, l \in StoredResultKeys :
       (/\ k[2] \in DOMAIN chunkFiles[k[1]]
        /\ l[2] \in DOMAIN chunkFiles[l[1]]
        /\ chunkFiles[k[1]][k[2]] = chunkFiles[l[1]][l[2]]) =>
         /\ resultFiles[k[1]][k[2]].prediction = resultFiles[l[1]][l[2]].prediction
         /\ resultFiles[k[1]][k[2]].confidence = resultFiles[l[1]][l[2]].confidence

\* C36 witness: the same bytes, whose digest gives 0.999 before the clamp,
\* were analysed under two sessions and two indices, and both results are
\* fake with confidence 0.9
C36_Witness ==
  \E k, l \in StoredResultKeys :
    /\ k[1] /= l[1] /\ k[2] /= l[2]
    /\ k[2] \in DOMAIN chunkFiles[k[1]]
    /\ l[2] \in DOMAIN chunkFiles[l[1]]
    /\ chunkFiles[k[1]][k[2]] = chunkFiles[l[1]][l[2]]
    /\ HashInt(chunkFiles[k[1]][k[2]]) % 1000 > 900
    /\ resultFiles[k[1]][k[2]].confidence = 9000
    /\ resultFiles[l[1]][l[2]].prediction = "fake"

====
